---- MODULE Spec2Model ----
(***************************************************************************)
(* kdp-builder: the Markdown line parser (kdpbuilder/markdown_parser.py),  *)
(* the conversion (kdpbuilder/convert.py), the configuration it loads      *)
(* (kdpbuilder/config_io.py, kdpbuilder/definitions.py), the style        *)
(* lookups and bookmarks of the builder (kdpbuilder/docx_builder.py), and  *)
(* main of the command line (kdpbuilder/cli.py, kdp_builder.py).           *)
(*                                                                         *)
(* A Python str is a sequence of one-character strings; offsets are the    *)
(* 0-based offsets of the Python code, slices are half-open.  A style name *)
(* is a str too, because a custom span takes it from the line.             *)
(***************************************************************************)
EXTENDS Integers, Sequences, FiniteSets, TLC

VARIABLES
    \* MarkdownParser._split_inline_markdown_styles(text)
    ftext, fpos, fsegs, fbest, fpc,
    \* MarkdownParser.parse_line(line)
    line, pos, matches, mi, segments, final, pc,
    \* convert_markdown_to_docx: the input file, the lines consumed, the
    \* calls made on the builder, and for each line consumed the branch of the
    \* loop body it took and whether inline-style scanning ran on it
    doc, li, calls, kinds, scanned, cpc,
    \* the styles file, the layout file and the input/output step that fails
    \* in this run ("none" when all succeed)
    stylesYaml, layoutYaml, ioFault,
    \* the style dictionary load_styles returns and the builder keeps, the
    \* LayoutDefinition, whether DocxBuilder has been constructed, the style
    \* lookups rendering has made, and the exception that ended the run
    styles, layout, built, resolved, err,
    \* DocxBuilder._bookmark_id_counter and the w:bookmarkStart and
    \* w:bookmarkEnd elements the builder has put into the document
    bookmarkIdCounter, bookmarkElems,
    \* main of the command line: the entry point run, which of the three input
    \* paths exist, the suffix of the output path, the position in main, the
    \* number of input paths checked, the conversion function called, the
    \* lines printed on stderr and the exit status (-1 while running)
    entry, present, suffix, clipc, checked, converter, stderr, exitStatus

vars == <<ftext, fpos, fsegs, fbest, fpc,
          line, pos, matches, mi, segments, final, pc,
          doc, li, calls, kinds, scanned, cpc,
          stylesYaml, layoutYaml, ioFault, styles, layout, built, resolved, err,
          bookmarkIdCounter, bookmarkElems,
          entry, present, suffix, clipc, checked, converter, stderr, exitStatus>>

foldVars == <<ftext, fpos, fsegs, fbest, fpc>>
parseVars == <<line, pos, matches, mi, segments, final, pc>>
convVars == <<doc, li, calls, kinds, scanned, cpc,
              stylesYaml, layoutYaml, ioFault, styles, layout, built, resolved, err,
              bookmarkIdCounter, bookmarkElems>>
cliVars == <<entry, present, suffix, clipc, checked, converter, stderr, exitStatus>>

----------------------------------------------------------------------------
(* Bounds of the model.                                                    *)

\* a fold text is at most MaxFoldPieces fragments long
MaxFoldPieces == 4
\* a generated line is at most MaxPieces fragments long
MaxPieces == 3
\* an input file of several lines has at most MaxDocLines lines
MaxDocLines == 2
\* a fold text of the termination check is at most MaxLivePieces fragments long
MaxLivePieces == 3

----------------------------------------------------------------------------
(* Python str helpers.                                                     *)

Min(S) == CHOOSE x \in S : \A y \in S : x <= y

At(s, i) == s[i + 1]

Slice(s, a, b) == SubSeq(s, a + 1, b)

\* str.isspace() of one character, and the regex class \s
IsSpace(c) == c \in {" ", "\t", "\n", "\r", "\f"}

\* the first offset >= i at which s holds `stop`, or len(s): where a greedy
\* negated class [^stop]+ started at i ends
RunEnd(s, i, stop) ==
    Min({j \in i..Len(s) : j = Len(s) \/ At(s, j) = stop})

\* str.strip()
Strip(s) ==
    LET keep == {j \in 0..(Len(s) - 1) : ~IsSpace(At(s, j))}
    IN  IF keep = {} THEN <<>>
        ELSE Slice(s, Min(keep), (CHOOSE j \in keep : \A k \in keep : k <= j) + 1)

\* str.rstrip("\n")
RStripNL(s) ==
    LET keep == {j \in 0..(Len(s) - 1) : At(s, j) # "\n"}
    IN  IF keep = {} THEN <<>>
        ELSE Slice(s, 0, (CHOOSE j \in keep : \A k \in keep : k <= j) + 1)

NORMAL == <<"n", "o", "r", "m", "a", "l">>
STRONG == <<"s", "t", "r", "o", "n", "g">>
EMPHASIS == <<"e", "m", "p", "h", "a", "s", "i", "s">>
HEADING == <<"h", "e", "a", "d", "i", "n", "g">>

Seg(text, style, link) == [text |-> text, style |-> style, link |-> link]

----------------------------------------------------------------------------
(* The regular expressions of MarkdownParser, each as the match the regex  *)
(* engine finds at a given start offset.                                   *)

NoMatch == [type |-> "none", start |-> 0, end |-> 0, g1 |-> <<>>, g2 |-> <<>>]

\* STYLED_TEXT_PATTERN  \{([^}]+)\}\[([^\]]+)\]  anchored at offset i
StyledMatchAt(s, i) ==
    LET e1 == RunEnd(s, i + 1, "}")
        e2 == RunEnd(s, e1 + 2, "]")
    IN  IF /\ i < Len(s)
           /\ At(s, i) = "{"
           /\ i + 1 < Len(s)
           /\ e1 > i + 1
           /\ e1 + 2 < Len(s)
           /\ At(s, e1 + 1) = "["
           /\ e2 > e1 + 2
           /\ e2 < Len(s)
        THEN [type |-> "styled", start |-> i, end |-> e2 + 1,
              g1 |-> Slice(s, i + 1, e1), g2 |-> Slice(s, e1 + 2, e2)]
        ELSE NoMatch

\* LINK_PATTERN  \[([^\]]+)\]\(#([^\)]+)\)  anchored at offset i
LinkMatchAt(s, i) ==
    LET e1 == RunEnd(s, i + 1, "]")
        e2 == RunEnd(s, e1 + 3, ")")
    IN  IF /\ i < Len(s)
           /\ At(s, i) = "["
           /\ i + 1 < Len(s)
           /\ e1 > i + 1
           /\ e1 + 3 < Len(s)
           /\ At(s, e1 + 1) = "("
           /\ At(s, e1 + 2) = "#"
           /\ e2 > e1 + 3
           /\ e2 < Len(s)
        THEN [type |-> "link", start |-> i, end |-> e2 + 1,
              g1 |-> Slice(s, i + 1, e1), g2 |-> Slice(s, e1 + 3, e2)]
        ELSE NoMatch

SpanMatchAt(type, s, i) ==
    IF type = "styled" THEN StyledMatchAt(s, i) ELSE LinkMatchAt(s, i)

\* pattern.finditer(line): the leftmost match at or after `from`, then on
\* from its end (a match is never empty)
RECURSIVE FindIter(_, _, _)
FindIter(type, s, from) ==
    LET starts == {i \in from..(Len(s) - 1) : SpanMatchAt(type, s, i).type # "none"}
    IN  IF starts = {} THEN <<>>
        ELSE LET m == SpanMatchAt(type, s, Min(starts))
             IN  <<m>> \o FindIter(type, s, m.end)

\* _INLINE_PATTERNS, in list order: the marker and the style of each
InlineMarker(k) ==
    CASE k = 1 -> <<"*", "*">>
      [] k = 2 -> <<"_", "_">>
      [] k = 3 -> <<"*">>
      [] k = 4 -> <<"_">>

\* the style names of the list exchanged
InlineStyleSwapped(k) == IF k <= 2 THEN EMPHASIS ELSE STRONG

InlineStyle(k) == IF k <= 2 THEN STRONG ELSE EMPHASIS

NumInlinePatterns == 4

\* MARK(?=\S)(.+?)(?<=\S)MARK anchored at offset i: the lazy group ends at
\* the first offset that lets the rest of the pattern match
InlineMatchAt(k, s, i) ==
    LET mk == InlineMarker(k)
        n == Len(mk)
    IN  IF /\ i + n < Len(s)
           /\ Slice(s, i, i + n) = mk
           /\ ~IsSpace(At(s, i + n))
        THEN CHOOSE m \in
            { IF ends = {} THEN NoMatch
              ELSE CHOOSE r \in
                  { [type |-> "inline", start |-> i, end |-> e + n,
                     g1 |-> Slice(s, i + n, e), g2 |-> <<>>] : e \in {Min(ends)} } : TRUE
              : ends \in {{e \in (i + n + 1)..(Len(s) - n) :
                              /\ \A j \in (i + n)..(e - 1) : At(s, j) # "\n"
                              /\ ~IsSpace(At(s, e - 1))
                              /\ Slice(s, e, e + n) = mk}} } : TRUE
        ELSE NoMatch

\* pattern.search(text, pos)
InlineSearch(k, s, from) ==
    CHOOSE m \in
        { IF found = {} THEN NoMatch
          ELSE CHOOSE r \in found : \A o \in found : r.start <= o.start
          : found \in {{r \in {InlineMatchAt(k, s, i) : i \in from..(Len(s) - 1)} :
                           r.type # "none"}} } : TRUE

----------------------------------------------------------------------------
(* MarkdownParser._split_inline_markdown_styles                            *)

\* best = None
NoBest == [style |-> <<>>, match |-> NoMatch]

\* the loop body that keeps the first pattern of the list that matches
BestUpdateFirstWins(best, k, m) ==
    IF m.type = "none" THEN best
    ELSE IF best.match.type = "none" THEN [style |-> InlineStyle(k), match |-> m]
    ELSE best

\* the body of `for style_name, pattern in _INLINE_PATTERNS`: pattern k
\* replaces best when it starts earlier, or at the same offset and ends later
BestUpdate(best, k, m) ==
    IF m.type = "none" THEN best
    ELSE IF best.match.type = "none" THEN [style |-> InlineStyle(k), match |-> m]
    ELSE IF m.start < best.match.start THEN [style |-> InlineStyle(k), match |-> m]
    ELSE IF m.start = best.match.start /\ m.end > best.match.end
         THEN [style |-> InlineStyle(k), match |-> m]
    ELSE best

RECURSIVE BestFrom(_, _, _, _)
BestFrom(text, from, k, best) ==
    IF k > NumInlinePatterns THEN best
    ELSE CHOOSE r \in
        { BestFrom(text, from, k + 1, b)
          : b \in {BestUpdate(best, k, m) : m \in {InlineSearch(k, text, from)}} } : TRUE

BestMatch(text, from) == BestFrom(text, from, 1, NoBest)

\* an iteration that leaves the cursor where it is after a match
FoldIterStuck(text, p, segs) ==
    CHOOSE r \in
        { IF best.match.type = "none"
          THEN [pos |-> p, segs |-> Append(segs, Seg(Slice(text, p, Len(text)), NORMAL, <<>>)),
                brk |-> TRUE]
          ELSE [pos |-> p, segs |-> segs, brk |-> FALSE]
          : best \in {BestMatch(text, p)} } : TRUE

\* one iteration of `while pos < len(text)`, from cursor p with the segments
\* segs: the new cursor, the new segments, and whether the loop broke
FoldIter(text, p, segs) ==
    CHOOSE r \in
        { IF best.match.type = "none"
          THEN [pos |-> p, segs |-> Append(segs, Seg(Slice(text, p, Len(text)), NORMAL, <<>>)),
                brk |-> TRUE]
          ELSE [pos |-> best.match.end,
                segs |-> (IF best.match.start > p
                          THEN Append(segs, Seg(Slice(text, p, best.match.start), NORMAL, <<>>))
                          ELSE segs) \o <<Seg(best.match.g1, best.style, <<>>)>>,
                brk |-> FALSE]
          : best \in {BestMatch(text, p)} } : TRUE

\* the filter with the test seg[0].strip(): whitespace-only segments go too
DropBlank(segs) ==
    SelectSeq(segs, LAMBDA sg : \E i \in 1..Len(sg.text) : ~IsSpace(sg.text[i]))

\* return [seg for seg in segments if seg[0] != ""]
DropEmpty(segs) == SelectSeq(segs, LAMBDA sg : sg.text # <<>>)

RECURSIVE FoldLoop(_, _, _)
FoldLoop(text, p, segs) ==
    IF p < Len(text)
    THEN LET r == FoldIter(text, p, segs)
         IN  IF r.brk THEN r.segs ELSE FoldLoop(text, r.pos, r.segs)
    ELSE segs

SplitInline(text) ==
    IF text = <<>> THEN <<>> ELSE DropEmpty(FoldLoop(text, 0, <<>>))

----------------------------------------------------------------------------
(* MarkdownParser.parse_line                                               *)

\* the number of leading `#` of the line
HashRun(s) == Min({j \in 0..Len(s) : j = Len(s) \/ At(s, j) # "#"})

\* the end of the whitespace run that starts at offset i
SpaceEnd(s, i) == Min({j \in i..Len(s) : j = Len(s) \/ ~IsSpace(At(s, j))})

DigitChar(n) == <<"0", "1", "2", "3", "4", "5", "6", "7", "8", "9">>[n + 1]

MaxHeadingLevel == 6

\* the header pattern without the upper limit on the `#` run
HeaderMatchUncapped(s) ==
    LET k == HashRun(s)
        w == SpaceEnd(s, k)
        t == IF w < Len(s) THEN w ELSE w - 1
    IN  IF /\ k >= 1
           /\ k < Len(s)
           /\ IsSpace(At(s, k))
           /\ t > k
        THEN [type |-> "header", start |-> 0, end |-> Len(s),
              g1 |-> Slice(s, 0, k), g2 |-> Slice(s, t, Len(s))]
        ELSE NoMatch

\* HEADER_PATTERN  ^(#{1,6})\s+(.+)$  on a line that holds no newline: \s+
\* is greedy and gives one character back when nothing follows it
HeaderMatch(s) ==
    LET k == HashRun(s)
        w == SpaceEnd(s, k)
        t == IF w < Len(s) THEN w ELSE w - 1
    IN  IF /\ k >= 1
           /\ k <= MaxHeadingLevel
           /\ k < Len(s)
           /\ IsSpace(At(s, k))
           /\ t > k
        THEN [type |-> "header", start |-> 0, end |-> Len(s),
              g1 |-> Slice(s, 0, k), g2 |-> Slice(s, t, Len(s))]
        ELSE NoMatch

HeadingStyle(level) == Append(HEADING, DigitChar(level))

\* list.sort(key=lambda x: x[1]): a stable sort by start offset
RECURSIVE SortByStart(_)
SortByStart(ms) ==
    IF Len(ms) <= 1 THEN ms
    ELSE LET rest == SortByStart(SubSeq(ms, 1, Len(ms) - 1))
             m == ms[Len(ms)]
             keep == {i \in 1..Len(rest) : rest[i].start <= m.start}
             n == IF keep = {} THEN 0 ELSE CHOOSE i \in keep : \A j \in keep : j <= i
         IN  SubSeq(rest, 1, n) \o <<m>> \o SubSeq(rest, n + 1, Len(rest))

\* lines 104-109: the styled matches, then the link matches, sorted by start
CollectMatches(s) ==
    SortByStart(FindIter("styled", s, 0) \o FindIter("link", s, 0))

\* the segment of a match with the anchor of a link left out
SpanSegmentNoAnchor(m) ==
    IF m.type = "styled" THEN Seg(m.g1, m.g2, <<>>) ELSE Seg(m.g1, NORMAL, <<>>)

\* the segment of a match with group 2 as link target for both kinds
SpanSegmentAlwaysLinked(m) ==
    IF m.type = "styled" THEN Seg(m.g1, m.g2, m.g2) ELSE Seg(m.g1, NORMAL, m.g2)

\* lines 117-120: the segment a match emits
SpanSegment(m) ==
    IF m.type = "styled" THEN Seg(m.g1, m.g2, <<>>) ELSE Seg(m.g1, NORMAL, m.g2)

\* the walk step with the test normal_text.strip(): whitespace between two
\* spans is discarded
WalkStepTrimmed(s, p, segs, m) ==
    [pos |-> m.end,
     segs |-> (IF m.start > p /\ Strip(Slice(s, p, m.start)) # <<>>
               THEN Append(segs, Seg(Slice(s, p, m.start), NORMAL, <<>>))
               ELSE segs) \o <<SpanSegment(m)>>]

\* one iteration of `for match_type, start, end, match in matches`
WalkStep(s, p, segs, m) ==
    [pos |-> m.end,
     segs |-> (IF m.start > p /\ Slice(s, p, m.start) # <<>>
               THEN Append(segs, Seg(Slice(s, p, m.start), NORMAL, <<>>))
               ELSE segs) \o <<SpanSegment(m)>>]

RECURSIVE WalkLoop(_, _, _, _, _)
WalkLoop(s, ms, i, p, segs) ==
    IF i > Len(ms) THEN [pos |-> p, segs |-> segs]
    ELSE LET r == WalkStep(s, p, segs, ms[i])
         IN  WalkLoop(s, ms, i + 1, r.pos, r.segs)

\* lines 124-130: the text after the last match, and the whole line when
\* nothing was emitted
WalkTail(s, p, segs) ==
    LET withRest == IF p < Len(s) /\ Slice(s, p, Len(s)) # <<>>
                    THEN Append(segs, Seg(Slice(s, p, Len(s)), NORMAL, <<>>))
                    ELSE segs
    IN  IF withRest = <<>> /\ s # <<>>
        THEN <<Seg(s, NORMAL, <<>>)>>
        ELSE withRest

\* lines 133-138: the emphasis fold of the plain segments
RECURSIVE PostProcess(_)
PostProcess(segs) ==
    IF segs = <<>> THEN <<>>
    ELSE LET sg == Head(segs)
         IN  (IF sg.style = NORMAL /\ sg.link = <<>>
              THEN SplitInline(sg.text)
              ELSE <<sg>>) \o PostProcess(Tail(segs))

\* the pre-fold segments of a line that is no heading
WalkSegments(s) ==
    LET r == WalkLoop(s, CollectMatches(s), 1, 0, <<>>)
    IN  WalkTail(s, r.pos, r.segs)

ParseLine(s) ==
    LET h == HeaderMatch(s)
    IN  IF h.type # "none"
        THEN <<Seg(h.g2, HeadingStyle(Len(h.g1)), <<>>)>>
        ELSE PostProcess(WalkSegments(s))

----------------------------------------------------------------------------
(* The directive detections of MarkdownParser and the list patterns of     *)
(* convert.py.  A line read from the file holds no newline once            *)
(* rstrip("\n") is applied, so `.+` runs to the end of the line.           *)

UpperLetters == <<"A", "B", "C", "D", "E", "F", "G", "H", "I", "J", "K", "L", "M",
                  "N", "O", "P", "Q", "R", "S", "T", "U", "V", "W", "X", "Y", "Z">>
LowerLetters == <<"a", "b", "c", "d", "e", "f", "g", "h", "i", "j", "k", "l", "m",
                  "n", "o", "p", "q", "r", "s", "t", "u", "v", "w", "x", "y", "z">>
Digits == {"0", "1", "2", "3", "4", "5", "6", "7", "8", "9"}

IsUpper(c) == \E i \in 1..Len(UpperLetters) : UpperLetters[i] = c
IsLower(c) == \E i \in 1..Len(LowerLetters) : LowerLetters[i] = c

\* str.lower() of one character
Lower(c) ==
    IF IsUpper(c)
    THEN LowerLetters[CHOOSE i \in 1..Len(UpperLetters) : UpperLetters[i] = c]
    ELSE c

LowerStr(s) == [i \in 1..Len(s) |-> Lower(s[i])]

NoNewline(s) == \A i \in 1..Len(s) : s[i] # "\n"

PagebreakToken == <<"<", "<", "<", "p", "a", "g", "e", "b", "r", "e", "a", "k", ">", ">", ">">>
TocToken == <<"<", "<", "<", "t", "o", "c", ">", ">", ">">>
IndexOpen == <<"<", "<", "<", "i", "n", "d", "e", "x", ":">>
BookmarkOpen == <<"<", "<", "<", "b", "o", "o", "k", "m", "a", "r", "k", ":">>
DirectiveClose == <<">", ">", ">">>

\* the page-break pattern without its ^ anchor, used with search
IsPagebreakUnanchored(s) ==
    LET x == LowerStr(Strip(s))
    IN  /\ Len(x) >= Len(PagebreakToken)
        /\ Slice(x, Len(x) - Len(PagebreakToken), Len(x)) = PagebreakToken

\* PAGEBREAK_PATTERN  ^<<<pagebreak>>>$  with re.IGNORECASE, on line.strip()
IsPagebreak(s) == LowerStr(Strip(s)) = PagebreakToken

\* TOC_PATTERN  ^<<<toc>>>$  with re.IGNORECASE, on line.strip()
IsToc(s) == LowerStr(Strip(s)) = TocToken

\* the wrapped pattern with group 1 taken from the lowered line
WrappedMatchLowered(open, s) ==
    LET x == LowerStr(Strip(s))
        n == Len(open)
    IN  IF /\ Len(x) >= n + 1 + Len(DirectiveClose)
           /\ Slice(x, 0, n) = open
           /\ Slice(x, Len(x) - Len(DirectiveClose), Len(x)) = DirectiveClose
           /\ NoNewline(x)
        THEN [ok |-> TRUE, arg |-> Slice(x, n, Len(x) - Len(DirectiveClose))]
        ELSE [ok |-> FALSE, arg |-> <<>>]

\* ^OPEN(.+)>>>$ with re.IGNORECASE on line.strip(): whether it matches, and
\* group 1
WrappedMatch(open, s) ==
    LET x == Strip(s)
        n == Len(open)
    IN  IF /\ Len(x) >= n + 1 + Len(DirectiveClose)
           /\ LowerStr(Slice(x, 0, n)) = open
           /\ Slice(x, Len(x) - Len(DirectiveClose), Len(x)) = DirectiveClose
           /\ NoNewline(x)
        THEN [ok |-> TRUE, arg |-> Slice(x, n, Len(x) - Len(DirectiveClose))]
        ELSE [ok |-> FALSE, arg |-> <<>>]

\* INDEX_PATTERN  ^<<<index:(.+)>>>$
IsIndex(s) == WrappedMatch(IndexOpen, s)

\* BOOKMARK_PATTERN  ^<<<bookmark:(.+)>>>$
IsBookmark(s) == WrappedMatch(BookmarkOpen, s)

\* the end of the run [ \t]* that starts the line
IndentEnd(s) == Min({j \in 0..Len(s) : j = Len(s) \/ At(s, j) \notin {" ", "\t"}})

\* the end of the run \d+ that starts at offset i
DigitEnd(s, i) == Min({j \in i..Len(s) : j = Len(s) \/ At(s, j) \notin Digits})

NoListMatch == [ok |-> FALSE, indent |-> <<>>, text |-> <<>>]

\* \s+(?P<text>.+)$ from offset i: the offset at which text starts, or -1
ListTextStart(s, i) ==
    LET w == SpaceEnd(s, i)
        t == IF w < Len(s) THEN w ELSE w - 1
    IN  IF i < Len(s) /\ IsSpace(At(s, i)) /\ t > i /\ NoNewline(s) THEN t ELSE -1

\* _UNORDERED_LIST_ITEM  ^(?P<indent>[ \t]*)(?P<marker>[-*+])\s+(?P<text>.+)$
UnorderedMatch(s) ==
    LET i == IndentEnd(s)
        t == ListTextStart(s, i + 1)
    IN  IF i < Len(s) /\ At(s, i) \in {"-", "*", "+"} /\ t >= 0
        THEN [ok |-> TRUE, indent |-> Slice(s, 0, i), text |-> Slice(s, t, Len(s))]
        ELSE NoListMatch

\* _ORDERED_LIST_ITEM  ^(?P<indent>[ \t]*)(?P<num>\d+)(?P<delim>[\.)])\s+(?P<text>.+)$
OrderedMatch(s) ==
    LET i == IndentEnd(s)
        d == DigitEnd(s, i)
        t == ListTextStart(s, d + 1)
    IN  IF d > i /\ d < Len(s) /\ At(s, d) \in {".", ")"} /\ t >= 0
        THEN [ok |-> TRUE, indent |-> Slice(s, 0, i), text |-> Slice(s, t, Len(s))]
        ELSE NoListMatch

TabWidth == 4

RECURSIVE IndentWidth(_)
IndentWidth(indent) ==
    IF indent = <<>> THEN 0
    ELSE (IF Head(indent) = "\t" THEN TabWidth ELSE 1) + IndentWidth(Tail(indent))

\* the level with a tab counted as one space
IndentToListLevelTabAsOne(indent) == (Len(indent) \div 4) + 1

\* _indent_to_list_level
IndentToListLevel(indent) == (IndentWidth(indent) \div 4) + 1

----------------------------------------------------------------------------
(* bookmarks.sanitize_bookmark_name                                        *)

MaxBookmarkLen == 40

BOOKMARK == <<"b", "o", "o", "k", "m", "a", "r", "k">>

\* re.sub(r"[^a-zA-Z0-9\s]", "", text)
KeepAlnumSpace(s) ==
    SelectSeq(s, LAMBDA c : IsUpper(c) \/ IsLower(c) \/ c \in Digits \/ IsSpace(c))

\* str.strip("_")
StripUnderscores(s) ==
    LET keep == {j \in 0..(Len(s) - 1) : At(s, j) # "_"}
    IN  IF keep = {} THEN <<>>
        ELSE Slice(s, Min(keep), (CHOOSE j \in keep : \A k \in keep : k <= j) + 1)

SanitizeBookmarkName(text) ==
    LET kept == KeepAlnumSpace(text)
        und == [i \in 1..Len(kept) |-> IF kept[i] = " " THEN "_" ELSE kept[i]]
        sanitized == StripUnderscores(und)
        prefixed == IF IsUpper(sanitized[1]) \/ IsLower(sanitized[1])
                    THEN sanitized
                    ELSE <<"h", "_">> \o sanitized
        cut == IF Len(prefixed) > MaxBookmarkLen
               THEN SubSeq(prefixed, 1, MaxBookmarkLen)
               ELSE prefixed
    IN  IF sanitized = <<>> THEN BOOKMARK ELSE LowerStr(cut)

----------------------------------------------------------------------------
(* definitions.py and config_io.py: the layout and the styles.  A YAML    *)
(* mapping is a record that holds the keys the file gives; a length is in *)
(* tenths of its unit; a style is its color string, <<>> for no color.    *)

INCHES == <<"i", "n", "c", "h", "e", "s">>
MM == <<"m", "m">>
CM == <<"c", "m">>

\* dict.get(key, default)
Get(data, key, default) == IF key \in DOMAIN data THEN data[key] ELSE default

\* the six lengths of a layout, in the order __init__ converts them
DimKeys ==
    <<"page_width", "page_height", "margin_top", "margin_bottom", "margin_left", "margin_right">>

\* the defaults 8.5, 11 and 1.0, in tenths
DimDefault(key) ==
    IF key = "page_width" THEN 85 ELSE IF key = "page_height" THEN 110 ELSE 10

\* a length check that rejects zero as well
ConvertToInchesPositive(unit, value) ==
    IF value <= 0 THEN [ok |-> FALSE, inches |-> 0]
    ELSE IF unit = MM THEN [ok |-> TRUE, inches |-> value * 10]
    ELSE IF unit = CM THEN [ok |-> TRUE, inches |-> value * 100]
    ELSE [ok |-> TRUE, inches |-> value * 254]

\* LayoutDefinition._convert_to_inches: the result counts 1/2540 inch, which
\* keeps value / 25.4 and value / 2.54 of a value in tenths exact
ConvertToInches(unit, value) ==
    IF value < 0 THEN [ok |-> FALSE, inches |-> 0]
    ELSE IF unit = MM THEN [ok |-> TRUE, inches |-> value * 10]
    ELSE IF unit = CM THEN [ok |-> TRUE, inches |-> value * 100]
    ELSE [ok |-> TRUE, inches |-> value * 254]

NoLayout == [unit |-> <<>>]

\* the unit as the file gives it
UnitAsGiven(data) == Get(data, "unit", INCHES)

\* line 43: str(layout_data.get("unit", "inches")).lower()
UnitOf(data) == LowerStr(Get(data, "unit", INCHES))

\* LayoutDefinition.__init__ (lines 42-63): ValueError on a unit that is not
\* inches, mm or cm after lower(), and on the first negative length
LayoutDefinition(data) ==
    CHOOSE r \in
        { IF unit \notin {INCHES, MM, CM}
          THEN [ok |-> FALSE, err |-> "ValueError", layout |-> NoLayout]
          ELSE IF \E i \in 1..Len(DimKeys) :
                      ~ConvertToInches(unit, Get(data, DimKeys[i], DimDefault(DimKeys[i]))).ok
          THEN [ok |-> FALSE, err |-> "ValueError", layout |-> NoLayout]
          ELSE [ok |-> TRUE, err |-> "",
                layout |->
                    [unit |-> unit,
                     dims |-> [i \in 1..Len(DimKeys) |->
                                  ConvertToInches(unit, Get(data, DimKeys[i],
                                                            DimDefault(DimKeys[i]))).inches],
                     header_text |-> Get(data, "header_text", <<>>),
                     header_style |-> Get(data, "header_style", NORMAL),
                     footer_text |-> Get(data, "footer_text", <<>>),
                     footer_style |-> Get(data, "footer_style", NORMAL)]]
          : unit \in {UnitOf(data)} } : TRUE

\* load_styles with StyleDefinition.from_dict: every style of the file is
\* taken as it is, its color unchecked
LoadStyles(data) == data

----------------------------------------------------------------------------
(* docx_builder.py: the style set of the builder and what rendering a     *)
(* paragraph looks up in it.                                               *)

HexDigits ==
    Digits \cup {"a", "b", "c", "d", "e", "f", "A", "B", "C", "D", "E", "F"}

\* int(s, 16) of a two-character string succeeds and RGBColor accepts the
\* value: two hex digits, or one hex digit with a sign or whitespace that
\* int() strips
HexByte(a, b) ==
    \/ a \in HexDigits /\ b \in HexDigits
    \/ (IsSpace(a) \/ a = "+") /\ b \in HexDigits
    \/ a \in HexDigits /\ IsSpace(b)
    \/ a = "-" /\ b = "0"

\* DocxBuilder._parse_color: TRUE when it returns, FALSE when it raises
\* ValueError
ParseColor(color) ==
    CHOOSE ok \in
        { /\ Len(c) = 6
          /\ HexByte(c[1], c[2])
          /\ HexByte(c[3], c[4])
          /\ HexByte(c[5], c[6])
          : c \in {IF color # <<>> /\ color[1] = "#" THEN Tail(color) ELSE color} } : TRUE

\* a constructor that leaves the style set as it was loaded
BuilderStylesAsLoaded(st) == st

\* DocxBuilder.__init__ lines 20-25: the style set with a default "normal"
\* added when it has none
BuilderStyles(st) ==
    IF NORMAL \in DOMAIN st THEN st
    ELSE [n \in DOMAIN st \cup {NORMAL} |-> IF n = NORMAL THEN <<>> ELSE st[n]]

\* self.styles.get(name, self.styles["normal"]): the default is evaluated
\* first, so the lookup raises KeyError when there is no "normal"
StyleLookup(st, name) ==
    IF NORMAL \notin DOMAIN st
    THEN [ok |-> FALSE, name |-> name, found |-> FALSE, color |-> <<>>]
    ELSE IF name \in DOMAIN st
    THEN [ok |-> TRUE, name |-> name, found |-> TRUE, color |-> st[name]]
    ELSE [ok |-> TRUE, name |-> name, found |-> FALSE, color |-> st[NORMAL]]

\* _apply_style_to_run lines 183-184: the color of the style is parsed when
\* the style has one
ApplyStyleOk(color) == color = <<>> \/ ParseColor(color)

\* what rendering has done: the lookups made, in order, and the error raised
Rendered(lookups, e) == [lookups |-> lookups, err |-> e]

\* add_paragraph lines 219-225 from segment i on, after the lookups `done`
RECURSIVE RenderSegments(_, _, _, _)
RenderSegments(st, segs, i, done) ==
    IF i > Len(segs) THEN Rendered(done, "")
    ELSE CHOOSE r \in
        { IF ~lk.ok THEN Rendered(done, "KeyError")
          ELSE IF segs[i].link = <<>> /\ ~ApplyStyleOk(lk.color)
          THEN Rendered(Append(done, lk), "ValueError")
          ELSE RenderSegments(st, segs, i + 1, Append(done, lk))
          : lk \in {StyleLookup(st, segs[i].style)} } : TRUE

\* DocxBuilder.add_paragraph (lines 186-230)
AddParagraph(st, segs) ==
    IF segs = <<>> THEN Rendered(<<>>, "")
    ELSE CHOOSE r \in
        { IF ~lk.ok THEN Rendered(<<>>, "KeyError")
          ELSE RenderSegments(st, segs, 1, <<lk>>)
          : lk \in {StyleLookup(st, segs[1].style)} } : TRUE

\* add_bullet_paragraph and add_numbered_paragraph: the segments are
\* rendered as add_paragraph renders them
AddListParagraph(st, segs) == RenderSegments(st, segs, 1, <<>>)

\* str(n) of an int n >= 0
RECURSIVE DecStr(_)
DecStr(n) == IF n < 10 THEN <<DigitChar(n)>> ELSE Append(DecStr(n \div 10), DigitChar(n % 10))

\* a counter that hands out the same value again
NextBookmarkIdKept(n) == n

\* _get_next_bookmark_id (lines 39-41): the counter after the increment; the
\* id returned is its str
NextBookmarkId(n) == n + 1

\* a w:bookmarkStart and a w:bookmarkEnd element; k is the call that put it
\* into its paragraph
BookmarkStart(id, name, k) == [tag |-> "w:bookmarkStart", id |-> id, name |-> name, call |-> k]
BookmarkEnd(id, k) == [tag |-> "w:bookmarkEnd", id |-> id, name |-> <<>>, call |-> k]

Bookmarked(n, elems) == [counter |-> n, elems |-> elems]

\* the bookmark elements call c, the k-th call on the builder, creates when
\* the counter is n and its rendering ends with the exception e ("" for
\* none): add_bookmark (lines 255-267) makes a start and an end;
\* add_paragraph with segments and an auto-bookmark inserts the start before
\* the runs (lines 212-217) and appends the end after them (lines 227-230),
\* so that a run that raises leaves the start alone; a KeyError is raised at
\* line 192, before the start
BookmarkEffect(c, e, n, k) ==
    IF c.op = "add_bookmark"
    THEN Bookmarked(NextBookmarkId(n),
                    <<BookmarkStart(DecStr(NextBookmarkId(n)), c.arg, k),
                      BookmarkEnd(DecStr(NextBookmarkId(n)), k)>>)
    ELSE IF /\ c.op = "add_paragraph"
            /\ c.segments # <<>>
            /\ c.bookmark # <<>>
            /\ c.bookmark[1] # <<>>
            /\ e # "KeyError"
    THEN Bookmarked(NextBookmarkId(n),
                    <<BookmarkStart(DecStr(NextBookmarkId(n)), c.bookmark[1], k)>>
                        \o (IF e = "" THEN <<BookmarkEnd(DecStr(NextBookmarkId(n)), k)>>
                            ELSE <<>>))
    ELSE Bookmarked(n, <<>>)

\* what a call of the loop body does in the builder
RenderCall(st, c) ==
    IF c.op = "add_paragraph" THEN AddParagraph(st, c.segments)
    ELSE IF c.op \in {"add_bullet_paragraph", "add_numbered_paragraph"}
    THEN AddListParagraph(st, c.segments)
    ELSE Rendered(<<>>, "")

\* apply_header_footer lines 129-136 and 138-145 for one of header and
\* footer: nothing without a text, else the style lookup and the runs of
\* _add_text_with_fields
RenderHeaderFooterText(st, text, style, done) ==
    IF text = <<>> THEN Rendered(done, "")
    ELSE CHOOSE r \in
        { IF ~lk.ok THEN Rendered(done, "KeyError")
          ELSE IF ~ApplyStyleOk(lk.color) THEN Rendered(Append(done, lk), "ValueError")
          ELSE Rendered(Append(done, lk), "")
          : lk \in {StyleLookup(st, style)} } : TRUE

\* DocxBuilder.apply_header_footer (lines 99-145) on the one section of the
\* document: the header, then the footer
ApplyHeaderFooter(st, ly) ==
    CHOOSE r \in
        { IF h.err # "" THEN h
          ELSE RenderHeaderFooterText(st, ly.footer_text, ly.footer_style,
                                      h.lookups)
          : h \in {RenderHeaderFooterText(st, ly.header_text,
                                           ly.header_style, <<>>)} } : TRUE

----------------------------------------------------------------------------
(* convert_markdown_to_docx: what one line of the input does.              *)

\* a call made on the builder; bookmark is <<>> for None, <<name>> otherwise
Call(op, segs, level, arg, bookmark) ==
    [op |-> op, segments |-> segs, level |-> level, arg |-> arg, bookmark |-> bookmark]

\* what one line does: the calls it makes, the branch that handles it, and
\* whether inline-style scanning ran on it
Handled(cs, kind, scan) == [calls |-> cs, kind |-> kind, scanned |-> scan]

\* an inline scanner that is the whole of parse_line, heading test included
ParseInlineWithHeadings(text) == ParseLine(text)

\* MarkdownParser.parse_inline: the inline scanner of parse_line without the
\* heading test
ParseInline(text) == PostProcess(WalkSegments(text))

\* a test for the style names heading1 ... heading6 only
StartsWithHeadingLevel(style) ==
    \E k \in 1..MaxHeadingLevel : style = HeadingStyle(k)

\* str(segments[0][1]).startswith("heading")
StartsWithHeading(style) ==
    Len(style) >= Len(HEADING) /\ SubSeq(style, 1, Len(HEADING)) = HEADING

\* lines 53-72: a non-blank line that is no directive; um, om and segments
\* are the local variables of the loop body, each computed once
ContentBranch(l) ==
    CHOOSE h \in
        { IF um.ok
          THEN Handled(<<Call("add_bullet_paragraph", ParseInline(um.text),
                              IndentToListLevel(um.indent), <<>>, <<>>)>>,
                       "bullet", TRUE)
          ELSE IF om.ok
          THEN Handled(<<Call("add_numbered_paragraph", ParseInline(om.text),
                              IndentToListLevel(om.indent), <<>>, <<>>)>>,
                       "ordered", TRUE)
          ELSE Handled(<<Call("add_paragraph", segs, 0, <<>>,
                              IF segs # <<>> /\ StartsWithHeading(segs[1].style)
                              THEN <<SanitizeBookmarkName(segs[1].text)>>
                              ELSE <<>>)>>,
                       IF HeaderMatch(l).type # "none" THEN "heading" ELSE "content",
                       HeaderMatch(l).type = "none")
          : um \in {UnorderedMatch(l)}, om \in {OrderedMatch(l)},
            segs \in {ParseLine(l)} } : TRUE

\* the body branch that skips a blank line instead of adding a paragraph
BodyBranchSkipsBlank(l) ==
    IF Strip(l) # <<>>
    THEN ContentBranch(l)
    ELSE Handled(<<>>, "blank", FALSE)

\* lines 52-74
BodyBranch(l) ==
    IF Strip(l) # <<>>
    THEN ContentBranch(l)
    ELSE Handled(<<Call("add_paragraph", <<>>, 0, <<>>, <<>>)>>, "blank", FALSE)

\* lines 47-50
BookmarkBranch(l) ==
    IF IsBookmark(l).ok
    THEN Handled(<<Call("add_bookmark", <<>>, 0, IsBookmark(l).arg, <<>>)>>,
                 "bookmark", FALSE)
    ELSE BodyBranch(l)

\* the index branch without its `continue`: the line goes on to the
\* bookmark test and to content handling
IndexBranchFallsThrough(l) ==
    IF IsIndex(l).ok
    THEN LET rest == BookmarkBranch(l)
         IN  Handled(<<Call("add_index_entry", <<>>, 0, IsIndex(l).arg, <<>>)>> \o rest.calls,
                     "index", rest.scanned)
    ELSE BookmarkBranch(l)

\* lines 42-45
IndexBranch(l) ==
    IF IsIndex(l).ok
    THEN Handled(<<Call("add_index_entry", <<>>, 0, IsIndex(l).arg, <<>>)>>,
                 "index", FALSE)
    ELSE BookmarkBranch(l)

\* lines 36-74: the body of `for line in f`
ProcessLine(raw) ==
    LET l == RStripNL(raw)
    IN  IF IsPagebreak(l)
        THEN Handled(<<Call("add_page_break", <<>>, 0, <<>>, <<>>)>>, "pagebreak", FALSE)
        ELSE IF IsToc(l)
        THEN Handled(<<Call("add_toc", <<>>, 0, <<>>, <<>>)>>, "toc", FALSE)
        ELSE IndexBranch(l)


----------------------------------------------------------------------------
(* The inputs of the model: every concatenation of a bounded number of     *)
(* fragments, and the lines of the repository's tests.                     *)

RECURSIVE Pieces(_, _)
Pieces(F, n) ==
    IF n = 0 THEN {<<>>}
    ELSE LET P == Pieces(F, n - 1) IN P \cup {p \o f : p \in P, f \in F}

\* a   space   *   **   _   __
FoldFragments ==
    { <<"a">>,
     <<" ">>,
     <<"*">>,
     <<"*", "*">>,
     <<"_">>,
     <<"_", "_">> }

FoldTexts == Pieces(FoldFragments, MaxFoldPieces)

\* *a*   __a__   a   space   *   _
LiveFragments ==
    { <<"*", "a", "*">>,
     <<"_", "_", "a", "_", "_">>,
     <<"a">>,
     <<" ">>,
     <<"*">>,
     <<"_">> }

\* the texts of the termination check: whole emphasis and strong spans one
\* after the other, with text and stray markers between them
LiveTexts == Pieces(LiveFragments, MaxLivePieces)

\* a   space   *   **   _   #   {a}   {*a*}   [s]   [normal]   (#c)
ParseFragments ==
    { <<"a">>,
     <<" ">>,
     <<"*">>,
     <<"*", "*">>,
     <<"_">>,
     <<"#">>,
     <<"{", "a", "}">>,
     <<"{", "*", "a", "*", "}">>,
     <<"[", "s", "]">>,
     <<"[", "n", "o", "r", "m", "a", "l", "]">>,
     <<"(", "#", "c", ")">> }

\* the lines of tests/test_markdown_parser.py, and lines on which spans
\* touch, nest or follow each other
ExampleLines ==
    { <<"T", "h", "i", "s", " ", "i", "s", " ", "*", "i", "t", "a", "l", "i", "c", "*", " ", "a", "n", "d", " ", "*", "*", "b", "o", "l", "d", "*", "*", ".">>,
     <<"_", "_", "b", "o", "l", "d", "_", "_", " ", "t", "h", "e", "n", " ", "_", "i", "t", "a", "l", "i", "c", "_">>,
     <<"A", " ", "{", "B", "}", "[", "s", "t", "r", "o", "n", "g", "]", " ", "C">>,
     <<"{", "*", "x", "*", "}", "[", "s", "t", "r", "o", "n", "g", "]">>,
     <<"{", "a", "}", "[", "b", "]", "(", "#", "c", ")">>,
     <<"{", "[", "x", "]", "(", "#", "y", ")", "}", "[", "s", "]">>,
     <<"{", "a", "}", "[", "s", "]", " ", "{", "a", "}", "[", "s", "]">>,
     <<"[", "s", "]", "(", "#", "c", ")", " ", "{", "a", "}", "[", "s", "]", " ">>,
     <<"*", "*", "*", "a", "*", "*", "*">> }

\* lines around the limits of HEADER_PATTERN: six and seven `#`, a `#` run
\* followed by whitespace only, a tab after the run, markup in the heading text
HeadingLines ==
    { <<"#", "#", "#", "#", "#", "#", " ", "a">>,
     <<"#", "#", "#", "#", "#", "#", "#", " ", "a">>,
     <<"#", " ">>,
     <<"#", " ", " ">>,
     <<"#", "\t", "a">>,
     <<"#", "a">>,
     <<"#", "#", " ", " ", "{", "a", "}", "[", "s", "]", " ", "*", "b", "*", " ">>,
     <<"#", " ", "[", "s", "]", "(", "#", "c", ")">> }

ParseLines == Pieces(ParseFragments, MaxPieces) \cup ExampleLines \cup HeadingLines

\* <<<toc   <<<index:   <<<bookmark:   <<<PageBreak   >>>   a   space   #   -   1.   *a*
ConvFragments ==
    { <<"<", "<", "<", "t", "o", "c">>,
     <<"<", "<", "<", "i", "n", "d", "e", "x", ":">>,
     <<"<", "<", "<", "b", "o", "o", "k", "m", "a", "r", "k", ":">>,
     <<"<", "<", "<", "P", "a", "g", "e", "B", "r", "e", "a", "k">>,
     <<">", ">", ">">>,
     <<"a">>,
     <<" ">>,
     <<"#">>,
     <<"-">>,
     <<"1", ".">>,
     <<"*", "a", "*">> }

\* one line of each kind, for the files of several lines: the four
\* directives, a directive without its closing, an empty and a blank line, a
\* bullet and a numbered item, a heading, a content line
FileLines ==
    { <<"<", "<", "<", "p", "a", "g", "e", "b", "r", "e", "a", "k", ">", ">", ">">>,
     <<"<", "<", "<", "T", "O", "C", ">", ">", ">">>,
     <<" ", "<", "<", "<", "i", "n", "d", "e", "x", ":", "*", "a", "*", ">", ">", ">">>,
     <<"<", "<", "<", "b", "o", "o", "k", "m", "a", "r", "k", ":", "a", " ", "b", ">", ">", ">">>,
     <<"<", "<", "<", "i", "n", "d", "e", "x", ":", "a">>,
     <<>>,
     <<" ", "\t">>,
     <<"*", " ", "a">>,
     <<" ", " ", "2", ")", " ", "*", "a", "*">>,
     <<"#", "#", " ", "A", " ", "b">>,
     <<"a", " ", "*", "a", "*">> }

NL == <<"\n">>

RECURSIVE SeqsUpTo(_, _)
SeqsUpTo(S, n) ==
    IF n = 0 THEN {<<>>}
    ELSE LET P == SeqsUpTo(S, n - 1) IN P \cup {Append(p, x) : p \in P, x \in S}

\* the lines `for line in f` yields: each ends with "\n", except that the
\* last line of a file may lack it
Terminated(d) == [i \in 1..Len(d) |-> d[i] \o NL]

LastOpen(d) == [i \in 1..Len(d) |-> IF i < Len(d) THEN d[i] \o NL ELSE d[i]]

\* heading lines whose text exercises sanitize_bookmark_name: a tab, a
\* leading digit, punctuation only, upper case, more than forty characters,
\* and lines whose first span names a heading style, a style that only
\* begins with `heading`, a heading style in upper case, and a heading style
\* after a blank
LongHeading == <<"#", " ">> \o [i \in 1..(MaxBookmarkLen + 2) |-> IF i % 7 = 0 THEN " " ELSE "B"]

BookmarkLines ==
    { <<"#", " ", "a", "\t", "b">>,
     <<"#", "\t", "\t">>,
     <<"#", " ", "1", "a">>,
     <<"#", " ", "!", "?">>,
     <<"#", " ", "A", " ", "b", "!">>,
     <<"#", " ", " ", "_", "a", "_">>,
     <<"{", "x", " ", "y", "}", "[", "h", "e", "a", "d", "i", "n", "g", "1", "]", " ", "z">>,
     <<"{", "x", "}", "[", "h", "e", "a", "d", "i", "n", "g", "s", "]">>,
     <<"{", "x", "}", "[", "H", "e", "a", "d", "i", "n", "g", "1", "]">>,
     <<" ", "{", "x", "}", "[", "h", "e", "a", "d", "i", "n", "g", "1", "]">>,
     LongHeading }

\* list items with indents of spaces and tabs, both delimiters, the three
\* bullet markers, and lines that only look like items
ListLines ==
    { <<"\t", "-", " ", "a">>,
     <<" ", " ", "\t", " ", "1", ")", " ", "a">>,
     <<" ", " ", " ", " ", " ", " ", " ", " ", "+", "\t", "a">>,
     <<" ", " ", " ", "1", "2", ".", " ", "#", " ", "a">>,
     <<"\t", "\t", "*", " ", "*", "a", "*">>,
     <<"1", ".", "a">>,
     <<"-", "a">>,
     <<"1", " ", "a">>,
     <<" ", "-", " ">>,
     <<"-", " ", "A", " ", "*", "b", "*", " ", "a", "n", "d", " ", "*", "*", "c", "*", "*">>,
     <<"1", ".", " ", "#", " ", "N", "o", "t", " ", "a", " ", "h", "e", "a", "d", "i", "n", "g">>,
     <<"-", " ", "<", "<", "<", "t", "o", "c", ">", ">", ">">>,
     <<"+", " ", "-", " ", "{", "a", "}", "[", "s", "]">> }

\* directive lines with markers and terms in mixed case, a term with blanks
\* around it, a term that holds the closing delimiter, an empty name, and
\* text before or after the marker
DirectiveLines ==
    { <<"<", "<", "<", "I", "n", "d", "e", "x", ":", "A", "b", ">", ">", ">">>,
     <<"\t", "<", "<", "<", "B", "O", "O", "K", "M", "A", "R", "K", ":", " ", "X", " ", ">", ">", ">", " ">>,
     <<"<", "<", "<", "i", "n", "d", "e", "x", ":", "a", ">", ">", ">", "b", ">", ">", ">">>,
     <<"<", "<", "<", "b", "o", "o", "k", "m", "a", "r", "k", ":", ">", ">", ">">>,
     <<"<", "<", "<", " ", "t", "o", "c", ">", ">", ">">>,
     <<"x", "<", "<", "<", "P", "A", "G", "E", "B", "R", "E", "A", "K", ">", ">", ">">>,
     <<"<", "<", "<", "t", "o", "c", ">", ">">> }

\* the file of tests/test_numbered_lists_docx.py
NumberedListsDoc ==
    << <<"1", ".", " ", "f", "i", "r", "s", "t">>,
       <<" ", " ", " ", " ", "2", ".", " ", "n", "e", "s", "t", "e", "d">>,
       <<"3", ")", " ", "t", "h", "i", "r", "d">> >>

Docs ==
    LET one == {<<l>> : l \in Pieces(ConvFragments, MaxPieces) \cup BookmarkLines \cup ListLines
                                 \cup DirectiveLines}
        many == SeqsUpTo(FileLines, MaxDocLines) \cup {NumberedListsDoc}
    IN  {Terminated(d) : d \in one \cup many}
            \cup {LastOpen(d) : d \in {m \in many : m # <<>> /\ m[Len(m)] # <<>>}}

\* color strings: valid with and without `#`, too short, a non-hex digit,
\* and a string int() accepts although it is no run of six hex digits
Red == <<"#", "F", "f", "0", "0", "0", "0">>
Blue == <<"0", "0", "0", "0", "f", "F">>
ShortColor == <<"#", "1", "2", "3", "4", "5">>
NotHexColor == <<"1", "2", "3", "4", "5", "g">>
SignedColor == <<"+", "1", " ", "2", "3", " ">>

\* the styles files: none, the style set of the tests, and sets with and
\* without "normal" whose colors are valid or malformed
StyleFiles ==
    { <<>>,
      (NORMAL :> <<>>),
      (NORMAL :> Red) @@ (<<"s">> :> Blue),
      (<<"s">> :> ShortColor),
      (NORMAL :> NotHexColor),
      (NORMAL :> <<>>) @@ (<<"s">> :> NotHexColor),
      (NORMAL :> <<>>) @@ (<<"s">> :> SignedColor),
      (NORMAL :> <<>>) @@ (HeadingStyle(1) :> ShortColor) }

TestStyles == (NORMAL :> <<>>)

\* the lengths a layout file gives: negative, zero, positive (in tenths)
Lengths == {-1, 0, 25}

\* the layout files: the empty one, units in several spellings, one length
\* set to each value, all lengths zero, a negative length under mm, and
\* header and footer texts with styles the style set has or lacks
LayoutFiles ==
    { <<>> }
    \cup {("unit" :> u) : u \in {MM, CM, <<"M", "M">>, <<"I", "n", "c", "h", "e", "s">>,
                                  <<"p", "t">>, <<>>}}
    \cup {(DimKeys[i] :> v) : i \in 1..Len(DimKeys), v \in Lengths}
    \cup { [k \in {DimKeys[i] : i \in 1..Len(DimKeys)} |-> 0],
           ("unit" :> MM) @@ ("margin_left" :> -1),
           ("header_text" :> <<"H">>),
           ("header_text" :> <<"H">>) @@ ("header_style" :> <<"s">>),
           ("footer_text" :> <<"{", "p", "a", "g", "e", "}">>) @@ ("footer_style" :> <<"q">>),
           ("header_text" :> <<"H">>) @@ ("footer_text" :> <<"F">>)
               @@ ("footer_style" :> <<"s">>) }

IoSteps == {"styles", "layout", "open", "read", "save"}

\* the files rendered under every configuration: no line, a plain line,
\* spans with a style the style set may have or lack, a link, a heading, a
\* list item, a blank line, a directive, files of two lines, a bookmark
\* directive before a heading, and two headings and a bookmark directive of
\* the same bookmark name
RenderDocs ==
    { <<>>,
      << <<"a">> >>,
      << <<"{", "a", "}", "[", "s", "]">> >>,
      << <<"{", "a", "}", "[", "q", "]", " ", "b">> >>,
      << <<"[", "s", "]", "(", "#", "c", ")">> >>,
      << <<"#", " ", "A">> >>,
      << <<"-", " ", "{", "a", "}", "[", "s", "]">> >>,
      << <<"a">>, <<"{", "a", "}", "[", "s", "]">> >>,
      << <<"<", "<", "<", "t", "o", "c", ">", ">", ">">>, <<>> >>,
      << <<"<", "<", "<", "b", "o", "o", "k", "m", "a", "r", "k", ":", "x", ">", ">", ">">>,
         <<"#", " ", "A">> >>,
      << <<"#", "#", " ", "A", " ", "b">>,
         <<"a">>,
         <<"<", "<", "<", "b", "o", "o", "k", "m", "a", "r", "k", ":", "a", "_", "b", ">", ">", ">">>,
         <<"#", "#", " ", "a", " ", "b", "!">> >> }

\* the runs: every file under the configuration of the tests, and the
\* rendered files under every configuration and under every failing step
Runs ==
    {<<d, TestStyles, <<>>, "none">> : d \in Docs}
        \cup {<<Terminated(d), st, ly, "none">> :
                  d \in RenderDocs, st \in StyleFiles, ly \in LayoutFiles}
        \cup {<<Terminated(d), TestStyles, <<>>, f>> : d \in RenderDocs, f \in IoSteps}

----------------------------------------------------------------------------
(* _split_inline_markdown_styles as a state machine: one step per          *)
(* iteration of its while loop.                                            *)

FoldIdle ==
    /\ ftext = <<>> /\ fpos = 0 /\ fsegs = <<>> /\ fbest = NoBest /\ fpc = "idle"

ParseIdle ==
    /\ line = <<>> /\ pos = 0 /\ matches = <<>> /\ mi = 0
    /\ segments = <<>> /\ final = <<>> /\ pc = "idle"

ConvIdle ==
    /\ doc = <<>> /\ li = 0 /\ calls = <<>> /\ kinds = <<>> /\ scanned = <<>>
    /\ cpc = "idle"
    /\ stylesYaml = <<>> /\ layoutYaml = <<>> /\ ioFault = "none"
    /\ styles = <<>> /\ layout = NoLayout /\ built = FALSE
    /\ resolved = <<>> /\ err = ""
    /\ bookmarkIdCounter = 0 /\ bookmarkElems = <<>>

\* main is not running
CliIdle ==
    /\ entry = "none" /\ present = <<>> /\ suffix = <<>> /\ clipc = "idle"
    /\ checked = 0 /\ converter = "none" /\ stderr = <<>> /\ exitStatus = -1

InitFold ==
    /\ ftext \in FoldTexts
    /\ fpos = 0
    /\ fsegs = <<>>
    /\ fbest = NoBest
    /\ fpc = "start"
    /\ ParseIdle
    /\ ConvIdle
    /\ CliIdle

\* if not text: return []
FoldEmpty ==
    /\ fpc = "start"
    /\ ftext = <<>>
    /\ fpc' = "done"
    /\ UNCHANGED <<ftext, fpos, fsegs, fbest>>
    /\ UNCHANGED <<parseVars, convVars, cliVars>>

FoldEnter ==
    /\ fpc = "start"
    /\ ftext # <<>>
    /\ fpc' = "loop"
    /\ UNCHANGED <<ftext, fpos, fsegs, fbest>>
    /\ UNCHANGED <<parseVars, convVars, cliVars>>

\* one iteration of the while loop
FoldStep ==
    /\ fpc = "loop"
    /\ fpos < Len(ftext)
    /\ \E r \in {FoldIter(ftext, fpos, fsegs)} :
       \E best \in {BestMatch(ftext, fpos)} :
           /\ fbest' = best
           /\ fpos' = r.pos
           /\ fsegs' = r.segs
           /\ fpc' = IF r.brk THEN "filter" ELSE "loop"
    /\ UNCHANGED ftext
    /\ UNCHANGED <<parseVars, convVars, cliVars>>

\* the loop condition fails
FoldExit ==
    /\ fpc = "loop"
    /\ fpos >= Len(ftext)
    /\ fpc' = "filter"
    /\ UNCHANGED <<ftext, fpos, fsegs, fbest>>
    /\ UNCHANGED <<parseVars, convVars, cliVars>>

FoldReturn ==
    /\ fpc = "filter"
    /\ fsegs' = DropEmpty(fsegs)
    /\ fpc' = "done"
    /\ UNCHANGED <<ftext, fpos, fbest>>
    /\ UNCHANGED <<parseVars, convVars, cliVars>>

NextFold ==
    \/ FoldEmpty
    \/ FoldEnter
    \/ FoldStep
    \/ FoldExit
    \/ FoldReturn

SpecFold == InitFold /\ [][NextFold]_vars

InitFoldLive ==
    /\ ftext \in LiveTexts
    /\ fpos = 0
    /\ fsegs = <<>>
    /\ fbest = NoBest
    /\ fpc = "start"
    /\ ParseIdle
    /\ ConvIdle
    /\ CliIdle

\* the function runs to its end once called: some statement of it is always
\* executed while one is enabled
SpecFoldLive == InitFoldLive /\ [][NextFold]_vars /\ WF_vars(NextFold)

----------------------------------------------------------------------------
(* parse_line as a state machine: the heading test, one step per match of  *)
(* the walk, the tail, the emphasis fold.                                  *)

InitParse ==
    /\ line \in ParseLines
    /\ pos = 0
    /\ matches = <<>>
    /\ mi = 0
    /\ segments = <<>>
    /\ final = <<>>
    /\ pc = "start"
    /\ FoldIdle
    /\ ConvIdle
    /\ CliIdle

\* lines 97-102
ParseHeader ==
    /\ pc = "start"
    /\ HeaderMatch(line).type # "none"
    /\ final' = ParseLine(line)
    /\ pc' = "done"
    /\ UNCHANGED <<line, pos, matches, mi, segments>>
    /\ UNCHANGED <<foldVars, convVars, cliVars>>

\* lines 104-109
ParseCollect ==
    /\ pc = "start"
    /\ HeaderMatch(line).type = "none"
    /\ matches' = CollectMatches(line)
    /\ pc' = "walk"
    /\ UNCHANGED <<line, pos, mi, segments, final>>
    /\ UNCHANGED <<foldVars, convVars, cliVars>>

\* lines 111-122
ParseWalk ==
    /\ pc = "walk"
    /\ mi < Len(matches)
    /\ LET r == WalkStep(line, pos, segments, matches[mi + 1])
       IN  /\ pos' = r.pos
           /\ segments' = r.segs
    /\ mi' = mi + 1
    /\ UNCHANGED <<line, matches, final, pc>>
    /\ UNCHANGED <<foldVars, convVars, cliVars>>

\* lines 124-130
ParseTail ==
    /\ pc = "walk"
    /\ mi = Len(matches)
    /\ segments' = WalkTail(line, pos, segments)
    /\ pc' = "post"
    /\ UNCHANGED <<line, pos, matches, mi, final>>
    /\ UNCHANGED <<foldVars, convVars, cliVars>>

\* lines 132-140
ParsePost ==
    /\ pc = "post"
    /\ final' = PostProcess(segments)
    /\ pc' = "done"
    /\ UNCHANGED <<line, pos, matches, mi, segments>>
    /\ UNCHANGED <<foldVars, convVars, cliVars>>

NextParse ==
    \/ ParseHeader
    \/ ParseCollect
    \/ ParseWalk
    \/ ParseTail
    \/ ParsePost

SpecParse == InitParse /\ [][NextParse]_vars

----------------------------------------------------------------------------
(* convert_markdown_to_docx as a state machine: one step per input line.   *)

\* the state in which convert_markdown_to_docx is entered, for a run of runs
ConvStart(runs) ==
    /\ \E run \in runs :
          /\ doc = run[1]
          /\ stylesYaml = run[2]
          /\ layoutYaml = run[3]
          /\ ioFault = run[4]
    /\ li = 0
    /\ calls = <<>>
    /\ kinds = <<>>
    /\ scanned = <<>>
    /\ cpc = "start"
    /\ styles = <<>>
    /\ layout = NoLayout
    /\ built = FALSE
    /\ resolved = <<>>
    /\ err = ""
    /\ bookmarkIdCounter = 0
    /\ bookmarkElems = <<>>

InitConv ==
    /\ ConvStart(Runs)
    /\ FoldIdle
    /\ ParseIdle
    /\ CliIdle

\* an exception that is recorded and then ignored: the run goes on to save
RaiseAndContinue(e) ==
    /\ cpc' = "footer"
    /\ err' = e

\* an exception leaves convert_markdown_to_docx: nothing catches it
Raise(e) ==
    /\ cpc' = "failed"
    /\ err' = e

\* line 29: load_styles
ConvLoadStyles ==
    /\ cpc = "start"
    /\ IF ioFault = "styles"
       THEN Raise("OSError") /\ UNCHANGED styles
       ELSE /\ styles' = LoadStyles(stylesYaml)
            /\ cpc' = "styles"
            /\ UNCHANGED err
    /\ UNCHANGED <<doc, li, calls, kinds, scanned, stylesYaml, layoutYaml, ioFault,
                   layout, built, resolved>>
    /\ UNCHANGED <<foldVars, parseVars, cliVars, bookmarkIdCounter, bookmarkElems>>

\* line 30: load_layout
ConvLoadLayout ==
    /\ cpc = "styles"
    /\ IF ioFault = "layout"
       THEN Raise("OSError") /\ UNCHANGED layout
       ELSE \E r \in {LayoutDefinition(layoutYaml)} :
                IF r.ok
                THEN layout' = r.layout /\ cpc' = "layout" /\ UNCHANGED err
                ELSE Raise(r.err) /\ UNCHANGED layout
    /\ UNCHANGED <<doc, li, calls, kinds, scanned, stylesYaml, layoutYaml, ioFault,
                   styles, built, resolved>>
    /\ UNCHANGED <<foldVars, parseVars, cliVars, bookmarkIdCounter, bookmarkElems>>

\* line 32: DocxBuilder(styles, layout)
ConvBuild ==
    /\ cpc = "layout"
    /\ styles' = BuilderStyles(styles)
    /\ built' = TRUE
    /\ bookmarkIdCounter' = 0
    /\ cpc' = "built"
    /\ UNCHANGED bookmarkElems
    /\ UNCHANGED <<doc, li, calls, kinds, scanned, stylesYaml, layoutYaml, ioFault,
                   layout, resolved, err>>
    /\ UNCHANGED <<foldVars, parseVars, cliVars>>

\* line 34: the input file is opened
ConvOpen ==
    /\ cpc = "built"
    /\ IF ioFault = "open"
       THEN Raise("OSError")
       ELSE cpc' = "loop" /\ UNCHANGED err
    /\ UNCHANGED <<doc, li, calls, kinds, scanned, stylesYaml, layoutYaml, ioFault,
                   styles, layout, built, resolved>>
    /\ UNCHANGED <<foldVars, parseVars, cliVars, bookmarkIdCounter, bookmarkElems>>

\* elements that are left out when the document has one of their name
PutElemsOnce(elems, new) ==
    elems \o SelectSeq(new, LAMBDA x :
                 \A i \in 1..Len(elems) :
                     elems[i].tag = "w:bookmarkStart" => elems[i].name # x.name)

\* paragraph._p.insert / paragraph._p.append (docx_builder.py lines 217, 230,
\* 266, 267): the elements are put into the document as they are
PutElems(elems, new) == elems \o new

\* the state of the builder a line changes: the lookups made, the exception
\* raised, the bookmark counter and the bookmark elements
Built(lookups, e, n, elems) == [lookups |-> lookups, err |-> e, counter |-> n, elems |-> elems]

\* the calls cs of one line from call i on, made on the builder one after
\* the other until one raises; k calls were made before this line
RECURSIVE RenderCalls(_, _, _, _, _)
RenderCalls(st, cs, i, k, acc) ==
    IF i > Len(cs) THEN acc
    ELSE CHOOSE r \in UNION
        { { IF out.err # ""
            THEN Built(acc.lookups \o out.lookups, out.err, bm.counter, acc.elems \o bm.elems)
            ELSE RenderCalls(st, cs, i + 1, k,
                             Built(acc.lookups \o out.lookups, "", bm.counter,
                                   acc.elems \o bm.elems))
            : bm \in {BookmarkEffect(cs[i], out.err, acc.counter, k + i)} }
          : out \in {RenderCall(st, cs[i])} } : TRUE

\* lines 35-74: one iteration of `for line in f`; reading the line may fail,
\* and the call made on the builder may raise
ConvLine ==
    /\ cpc = "loop"
    /\ li < Len(doc)
    /\ \/ /\ ioFault = "read"
          /\ Raise("UnicodeDecodeError")
          /\ UNCHANGED <<li, calls, kinds, scanned, resolved, bookmarkIdCounter, bookmarkElems>>
       \/ \E r \in {ProcessLine(doc[li + 1])} :
          \E out \in {RenderCalls(styles, r.calls, 1, Len(calls),
                                   Built(<<>>, "", bookmarkIdCounter, <<>>))} :
              /\ bookmarkIdCounter' = out.counter
              /\ bookmarkElems' = PutElems(bookmarkElems, out.elems)
              /\ calls' = calls \o r.calls
              /\ kinds' = Append(kinds, r.kind)
              /\ scanned' = Append(scanned, r.scanned)
              /\ li' = li + 1
              /\ resolved' = resolved \o out.lookups
              /\ IF out.err = "" THEN UNCHANGED <<cpc, err>> ELSE Raise(out.err)
    /\ UNCHANGED <<doc, stylesYaml, layoutYaml, ioFault, styles, layout, built>>
    /\ UNCHANGED <<foldVars, parseVars, cliVars>>

\* a header/footer step that does not wait for the end of the file
ConvHeaderFooterEarly ==
    /\ cpc = "loop"
    /\ li <= Len(doc)
    /\ calls' = Append(calls, Call("apply_header_footer", <<>>, 0, <<>>, <<>>))
    /\ \E out \in {ApplyHeaderFooter(styles, layout)} :
          /\ resolved' = resolved \o out.lookups
          /\ IF out.err = "" THEN cpc' = "footer" /\ UNCHANGED err ELSE Raise(out.err)
    /\ UNCHANGED <<doc, li, kinds, scanned, stylesYaml, layoutYaml, ioFault,
                   styles, layout, built>>
    /\ UNCHANGED <<foldVars, parseVars, cliVars, bookmarkIdCounter, bookmarkElems>>

\* line 76
ConvHeaderFooter ==
    /\ cpc = "loop"
    /\ li = Len(doc)
    /\ calls' = Append(calls, Call("apply_header_footer", <<>>, 0, <<>>, <<>>))
    /\ \E out \in {ApplyHeaderFooter(styles, layout)} :
          /\ resolved' = resolved \o out.lookups
          /\ IF out.err = "" THEN cpc' = "footer" /\ UNCHANGED err ELSE Raise(out.err)
    /\ UNCHANGED <<doc, li, kinds, scanned, stylesYaml, layoutYaml, ioFault,
                   styles, layout, built>>
    /\ UNCHANGED <<foldVars, parseVars, cliVars, bookmarkIdCounter, bookmarkElems>>

\* line 77: builder.save(output_path)
ConvSave ==
    /\ cpc = "footer"
    /\ calls' = Append(calls, Call("save", <<>>, 0, <<>>, <<>>))
    /\ IF ioFault = "save" THEN Raise("OSError") ELSE cpc' = "done" /\ UNCHANGED err
    /\ UNCHANGED <<doc, li, kinds, scanned, stylesYaml, layoutYaml, ioFault,
                   styles, layout, built, resolved>>
    /\ UNCHANGED <<foldVars, parseVars, cliVars, bookmarkIdCounter, bookmarkElems>>

NextConv ==
    \/ ConvLoadStyles
    \/ ConvLoadLayout
    \/ ConvBuild
    \/ ConvOpen
    \/ ConvLine
    \/ ConvHeaderFooter
    \/ ConvSave

SpecConv == InitConv /\ [][NextConv]_vars

Spec == SpecConv

----------------------------------------------------------------------------
(* main of the command line: kdpbuilder/cli.py (the package entry point)   *)
(* and kdp_builder.py (the script), one step per statement of main.        *)

\* the (file_path, name) pairs in the order main checks them: the argument
\* that holds the path, and the name main prints
InputFiles ==
    << <<"markdown", "Markdown">>, <<"styles", "Styles">>, <<"layout", "Layout">> >>

\* Path(args.output).suffix for the output paths of the model: the two
\* kinds, in lower and in mixed case, other extensions, and none
OutputSuffixes ==
    { <<".", "d", "o", "c", "x">>,
      <<".", "p", "d", "f">>,
      <<".", "D", "O", "C", "X">>,
      <<".", "P", "d", "f">>,
      <<".", "t", "x", "t">>,
      <<".", "d", "o", "c">>,
      <<>> }

\* the conversions main runs: a plain line and a heading, under the
\* configuration of the tests, a style whose color is malformed, a layout of
\* unknown unit, and each failing input/output step
CliRuns ==
    LET d == Terminated(<< <<"a">>, <<"#", " ", "A">> >>)
    IN  { <<d, TestStyles, <<>>, "none">>,
          <<d, (NORMAL :> <<>>) @@ (HeadingStyle(1) :> ShortColor), <<>>, "none">>,
          <<d, TestStyles, ("unit" :> <<"p", "t">>), "none">> }
            \cup {<<d, TestStyles, <<>>, f>> : f \in IoSteps}

InitCli ==
    /\ ConvStart(CliRuns)
    /\ FoldIdle
    /\ ParseIdle
    /\ entry \in {"kdpbuilder.cli", "kdp_builder"}
    /\ present \in [{InputFiles[i][1] : i \in 1..Len(InputFiles)} -> BOOLEAN]
    /\ suffix \in OutputSuffixes
    /\ clipc = "check"
    /\ checked = 0
    /\ converter = "none"
    /\ stderr = <<>>
    /\ exitStatus = -1

\* raise SystemExit(1) / sys.exit(1) after a line on stderr
ExitWithError(msg) ==
    /\ stderr' = Append(stderr, msg)
    /\ exitStatus' = 1
    /\ clipc' = "exited"

\* a check of the input paths that reports a missing file and goes on
CliCheckFileWarnOnly ==
    /\ clipc = "check"
    /\ checked < Len(InputFiles)
    /\ checked' = checked + 1
    /\ IF present[InputFiles[checked + 1][1]]
       THEN UNCHANGED stderr
       ELSE stderr' = Append(stderr, <<"file not found", InputFiles[checked + 1][2]>>)
    /\ UNCHANGED <<clipc, exitStatus>>
    /\ UNCHANGED <<entry, present, suffix, converter>>
    /\ UNCHANGED <<foldVars, parseVars, convVars>>

\* cli.py lines 39-46, kdp_builder.py lines 709-714: one iteration of the
\* loop over the three input paths
CliCheckFile ==
    /\ clipc = "check"
    /\ checked < Len(InputFiles)
    /\ IF present[InputFiles[checked + 1][1]]
       THEN /\ checked' = checked + 1
            /\ UNCHANGED <<clipc, stderr, exitStatus>>
       ELSE /\ ExitWithError(<<"file not found", InputFiles[checked + 1][2]>>)
            /\ UNCHANGED checked
    /\ UNCHANGED <<entry, present, suffix, converter>>
    /\ UNCHANGED <<foldVars, parseVars, convVars>>

\* after the loop. cli.py line 49: convert_markdown_to_docx is called
\* whatever the output path is. kdp_builder.py lines 716-730: the lowered
\* suffix selects convert_markdown_to_pdf or convert_markdown_to_docx, and
\* any other suffix exits with status 1 (sys.exit raises SystemExit, which
\* `except Exception` does not catch)
CliSelect ==
    /\ clipc = "check"
    /\ checked = Len(InputFiles)
    /\ IF entry = "kdpbuilder.cli"
       THEN /\ converter' = "convert_markdown_to_docx"
            /\ clipc' = "convert"
            /\ UNCHANGED <<stderr, exitStatus>>
       ELSE IF LowerStr(suffix) = <<".", "p", "d", "f">>
       THEN /\ converter' = "convert_markdown_to_pdf"
            /\ clipc' = "convert"
            /\ UNCHANGED <<stderr, exitStatus>>
       ELSE IF LowerStr(suffix) = <<".", "d", "o", "c", "x">>
       THEN /\ converter' = "convert_markdown_to_docx"
            /\ clipc' = "convert"
            /\ UNCHANGED <<stderr, exitStatus>>
       ELSE /\ ExitWithError(<<"Unsupported output format", LowerStr(suffix)>>)
            /\ UNCHANGED converter
    /\ UNCHANGED <<entry, present, suffix, checked>>
    /\ UNCHANGED <<foldVars, parseVars, convVars>>

\* cli.py line 49: a step of kdpbuilder.convert.convert_markdown_to_docx
CliConvert ==
    /\ clipc = "convert"
    /\ entry = "kdpbuilder.cli"
    /\ NextConv

\* kdp_builder.py lines 592-676: the conversion functions of the script,
\* by their outcome only: the call returns or it raises
ScriptConvert ==
    /\ clipc = "convert"
    /\ entry = "kdp_builder"
    /\ cpc = "start"
    /\ \/ cpc' = "done" /\ UNCHANGED err
       \/ Raise("Exception")
    /\ UNCHANGED <<doc, li, calls, kinds, scanned, stylesYaml, layoutYaml, ioFault,
                   styles, layout, built, resolved, bookmarkIdCounter, bookmarkElems>>
    /\ UNCHANGED <<foldVars, parseVars, cliVars>>

\* cli.py lines 50-53, kdp_builder.py lines 731-733: the conversion has
\* returned, or `except Exception` has caught what it raised
CliExit ==
    /\ clipc = "convert"
    /\ cpc \in {"done", "failed"}
    /\ IF cpc = "done"
       THEN /\ exitStatus' = 0
            /\ clipc' = "exited"
            /\ UNCHANGED stderr
       ELSE ExitWithError(<<"Error", err>>)
    /\ UNCHANGED <<entry, present, suffix, checked, converter>>
    /\ UNCHANGED <<foldVars, parseVars, convVars>>

NextCli ==
    \/ CliCheckFile
    \/ CliSelect
    \/ CliConvert
    \/ ScriptConvert
    \/ CliExit

SpecCli == InitCli /\ [][NextCli]_vars

----------------------------------------------------------------------------
(* The properties of the line parser.                                      *)

RECURSIVE ConcatTexts(_)
ConcatTexts(segs) ==
    IF segs = <<>> THEN <<>> ELSE Head(segs).text \o ConcatTexts(Tail(segs))

HasDirectiveSyntax(l) ==
    IsPagebreak(l) \/ IsToc(l) \/ IsIndex(l).ok \/ IsBookmark(l).ok

IsHeadingLine(l) == HeaderMatch(l).type # "none"

\* no custom span, no link span and no emphasis pattern matches in the line
NoMarkup(l) == CollectMatches(l) = <<>> /\ BestMatch(l, 0) = NoBest

ParsedContent == pc = "done" /\ ~IsHeadingLine(line) /\ ~HasDirectiveSyntax(line)

C2_WalkNeverOverlaps ==
    pc \in {"walk", "post", "done"} =>
        /\ \A i, j \in 1..Len(matches) :
              i < j => matches[i].end <= matches[j].start
        /\ \A i \in 1..mi : matches[i].end <= pos

StrongExampleLine == <<"{", "*", "x", "*", "}", "[", "s", "t", "r", "o", "n", "g", "]">>

\* C3: every custom span and every link span of a content line reaches the
\* result of parse_line as one segment holding its inner text or label
\* verbatim, whatever the style name; the emphasis fold is not applied to it.
C3_SpansNeverFolded ==
    (pc = "done" /\ ~IsHeadingLine(line)) =>
        /\ \A i \in 1..Len(matches) :
              \E k \in 1..Len(final) : final[k] = SpanSegment(matches[i])
        /\ line = StrongExampleLine =>
              final = <<Seg(<<"*", "x", "*">>, STRONG, <<>>)>>

\* C4: a walk step over a custom-span match {inner}[style] appends
\* (inner, style, "") and over a link match [label](#anchor) appends
\* (label, "normal", anchor), after the text between the cursor and the match,
\* if any, as a normal segment without link target; the text after the last
\* match is appended the same way.
C4_WalkEmits ==
    [][/\ (pc = "walk" /\ mi' = mi + 1) =>
            LET m == matches[mi']
                sg == segments'[Len(segments')]
                gap == IF m.start > pos
                       THEN <<Seg(Slice(line, pos, m.start), NORMAL, <<>>)>>
                       ELSE <<>>
            IN  /\ segments' = segments \o gap \o <<sg>>
                /\ m.type = "styled" =>
                      /\ sg.link = <<>>
                      /\ Slice(line, m.start, m.end)
                            = <<"{">> \o sg.text \o <<"}", "[">> \o sg.style \o <<"]">>
                /\ m.type = "link" =>
                      /\ sg.style = NORMAL
                      /\ Slice(line, m.start, m.end)
                            = <<"[">> \o sg.text \o <<"]", "(", "#">> \o sg.link \o <<")">>
       /\ (pc = "walk" /\ pc' = "post") =>
            segments' = IF pos < Len(line)
                        THEN Append(segments, Seg(Slice(line, pos, Len(line)), NORMAL, <<>>))
                        ELSE segments
      ]_vars

C4_Witness ==
    /\ pc = "post"
    /\ \E i, j \in 1..Len(matches) :
          /\ matches[i].type = "styled"
          /\ matches[j].type = "link"
          /\ matches[i].start > matches[j].end
    /\ Len(segments) = Len(matches) + 2
    /\ segments[Len(segments)].style = NORMAL

\* the matches the four patterns find at or after the cursor
Candidates(text, from) ==
    {InlineSearch(k, text, from) : k \in 1..NumInlinePatterns} \ {NoMatch}

StrongA == <<"*", "*", "a", "*", "*">>

\* C5: an iteration of the emphasis fold chooses, among the matches of the
\* four patterns at or after the cursor, the one that starts first, and among
\* those that start at the same offset the one that ends last; **a** folds to
\* the single segment (a, strong, "").
C5_LeftmostLongest ==
    /\ [][(fpc = "loop" /\ fpos < Len(ftext) /\ Candidates(ftext, fpos) # {}) =>
            /\ fbest'.match \in Candidates(ftext, fpos)
            /\ \A c \in Candidates(ftext, fpos) :
                  \/ fbest'.match.start < c.start
                  \/ fbest'.match.start = c.start /\ fbest'.match.end >= c.end
            /\ fpos' = fbest'.match.end
         ]_vars
    /\ []((fpc = "done" /\ ftext = StrongA) =>
            fsegs = <<Seg(<<"a">>, STRONG, <<>>)>>)

\* two patterns match at the offset of the chosen match, and the longer won
C5_Witness ==
    /\ fpc = "done"
    /\ fbest.style = STRONG
    /\ \E k \in 1..NumInlinePatterns :
          LET m == InlineMatchAt(k, ftext, fbest.match.start)
          IN  m.type # "none" /\ m.end < fbest.match.end
    /\ Len(fsegs) >= 2

\* the segments, with the markers put back, spell the text from offset off
RECURSIVE Unfolds(_, _, _)
Unfolds(segs, s, off) ==
    IF segs = <<>> THEN off = Len(s)
    ELSE LET sg == Head(segs)
             n == Len(sg.text)
             wrapped(mk) ==
                 /\ off + n + 2 * Len(mk) <= Len(s)
                 /\ Slice(s, off, off + n + 2 * Len(mk)) = mk \o sg.text \o mk
                 /\ Unfolds(Tail(segs), s, off + n + 2 * Len(mk))
         IN  /\ sg.link = <<>>
             /\ sg.text # <<>>
             /\ CASE sg.style = NORMAL ->
                       /\ off + n <= Len(s)
                       /\ Slice(s, off, off + n) = sg.text
                       /\ BestMatch(sg.text, 0) = NoBest
                       /\ Unfolds(Tail(segs), s, off + n)
                  [] sg.style = EMPHASIS -> wrapped(<<"*">>) \/ wrapped(<<"_">>)
                  [] sg.style = STRONG -> wrapped(<<"*", "*">>) \/ wrapped(<<"_", "_">>)
                  [] OTHER -> FALSE

ItalicBoldLine == <<"T", "h", "i", "s", " ", "i", "s", " ", "*", "i", "t", "a", "l", "i", "c", "*", " ", "a", "n", "d", " ", "*", "*", "b", "o", "l", "d", "*", "*", ".">>
UnderscoreLine == <<"_", "_", "b", "o", "l", "d", "_", "_", " ", "t", "h", "e", "n", " ", "_", "i", "t", "a", "l", "i", "c", "_">>

\* C6: on a content line without custom and link spans the result of
\* parse_line is the line cut into emphasis segments (*x* or _x_), strong
\* segments (**x** or __x__) and normal segments, in source order: each
\* emphasis or strong segment holds the text between its markers, each normal
\* segment holds its text unchanged and contains no further match.
C6_EmphasisSegments ==
    (pc = "done" /\ ~IsHeadingLine(line) /\ matches = <<>>) =>
        /\ Unfolds(final, line, 0)
        /\ line = ItalicBoldLine =>
              final = <<Seg(<<"T", "h", "i", "s", " ", "i", "s", " ">>, NORMAL, <<>>),
                      Seg(<<"i", "t", "a", "l", "i", "c">>, EMPHASIS, <<>>),
                      Seg(<<" ", "a", "n", "d", " ">>, NORMAL, <<>>),
                      Seg(<<"b", "o", "l", "d">>, STRONG, <<>>),
                      Seg(<<".">>, NORMAL, <<>>)>>
        /\ line = UnderscoreLine =>
              final = <<Seg(<<"b", "o", "l", "d">>, STRONG, <<>>),
                      Seg(<<" ", "t", "h", "e", "n", " ">>, NORMAL, <<>>),
                      Seg(<<"i", "t", "a", "l", "i", "c">>, EMPHASIS, <<>>)>>

C6_Witness ==
    /\ pc = "done"
    /\ line = ItalicBoldLine
    /\ Len(final) = 5
    /\ final[2].style = EMPHASIS
    /\ final[4].style = STRONG

\* the text the walk finds before match i, and after the last match
GapBefore(i) ==
    LET from == IF i = 1 THEN 0 ELSE matches[i - 1].end
    IN  IF matches[i].start > from THEN Slice(line, from, matches[i].start) ELSE <<>>

TailText ==
    LET from == IF matches = <<>> THEN 0 ELSE matches[Len(matches)].end
    IN  IF from < Len(line) THEN Slice(line, from, Len(line)) ELSE <<>>

Blank(s) == \A i \in 1..Len(s) : IsSpace(s[i])

Emitted(text) ==
    text # <<>> /\ BestMatch(text, 0) = NoBest =>
        /\ \E k \in 1..Len(segments) : segments[k] = Seg(text, NORMAL, <<>>)
        /\ \E k \in 1..Len(final) : final[k] = Seg(text, NORMAL, <<>>)

SpacedSpanLine == <<"A", " ", "{", "B", "}", "[", "s", "t", "r", "o", "n", "g", "]", " ", "C">>

----------------------------------------------------------------------------
(* The properties of the conversion loop.                                  *)

FinishOps == {"apply_header_footer", "save"}

\* the body-building calls made so far
BodyCalls == SelectSeq(calls, LAMBDA c : c.op \notin FinishOps)

\* line j of the file, as the loop body sees it
LineOf(j) == RStripNL(doc[j])

\* the detections that match a line
Detections(l) ==
    {d \in {"pagebreak", "toc", "index", "bookmark", "heading"} :
        \/ d = "pagebreak" /\ IsPagebreak(l)
        \/ d = "toc" /\ IsToc(l)
        \/ d = "index" /\ IsIndex(l).ok
        \/ d = "bookmark" /\ IsBookmark(l).ok
        \/ d = "heading" /\ IsHeadingLine(l)}

\* a segment that inline scanning produces: an emphasis or strong segment,
\* or a link
InlineScanned(sg) == sg.style \in {STRONG, EMPHASIS} \/ sg.link # <<>>

\* C8: at most one of the detections page break, table of contents, index,
\* bookmark and heading matches a line, and on a line that one of them
\* matches no inline-style scanning runs: the call made for it carries no
\* segment made by the scan.
C8_DetectionsExclusive ==
    \A j \in 1..li :
        LET l == LineOf(j)
        IN  /\ Cardinality(Detections(l)) <= 1
            /\ Detections(l) # {} =>
                  /\ ~scanned[j]
                  /\ Len(BodyCalls) = li
                  /\ \A k \in 1..Len(BodyCalls[j].segments) :
                        ~InlineScanned(BodyCalls[j].segments[k])

\* an index directive and a heading whose text holds emphasis markers
C8_Witness ==
    /\ li = 1
    /\ \/ /\ IsIndex(LineOf(1)).ok
          /\ BestMatch(IsIndex(LineOf(1)).arg, 0) # NoBest
       \/ /\ IsHeadingLine(LineOf(1))
          /\ BestMatch(LineOf(1), 0) # NoBest
    /\ ~scanned[1]
    /\ Len(calls) = 1

IsDirectiveOp(op) ==
    op \in {"add_page_break", "add_toc", "add_index_entry", "add_bookmark"}

\* the kinds of line of the data model that a line is, a content line being
\* a non-blank line of no other kind
KindsOf(l) ==
    LET special ==
            {k \in {"pagebreak", "toc", "index", "bookmark", "bullet", "ordered",
                    "heading", "blank"} :
                \/ k = "pagebreak" /\ IsPagebreak(l)
                \/ k = "toc" /\ IsToc(l)
                \/ k = "index" /\ IsIndex(l).ok
                \/ k = "bookmark" /\ IsBookmark(l).ok
                \/ k = "bullet" /\ UnorderedMatch(l).ok
                \/ k = "ordered" /\ OrderedMatch(l).ok
                \/ k = "heading" /\ IsHeadingLine(l)
                \/ k = "blank" /\ Strip(l) = <<>>}
    IN  IF special = {} THEN {"content"} ELSE special

\* the call that handles a line in the branch of the given kind
HandledAs(k, l, c) ==
    CASE k = "pagebreak" -> c.op = "add_page_break"
      [] k = "toc" -> c.op = "add_toc"
      [] k = "index" -> c.op = "add_index_entry" /\ c.arg = IsIndex(l).arg
      [] k = "bookmark" -> c.op = "add_bookmark" /\ c.arg = IsBookmark(l).arg
      [] k = "bullet" -> c.op = "add_bullet_paragraph" /\ c.level >= 1
      [] k = "ordered" -> c.op = "add_numbered_paragraph" /\ c.level >= 1
      [] k = "heading" ->
            /\ c.op = "add_paragraph"
            /\ Len(c.segments) = 1
            /\ c.segments[1].style = HeadingStyle(HashRun(l))
      [] k = "blank" -> c.op = "add_paragraph" /\ c.segments = <<>>
      [] k = "content" -> c.op = "add_paragraph" /\ c.segments # <<>>

\* C9: every line the loop has consumed is of exactly one kind (page break,
\* table of contents, index entry, bookmark, bullet item, ordered item,
\* heading, blank, content), the branch of the loop body that handles it is
\* the branch of that kind, and it makes one call, the call of that kind: a
\* directive line never reaches list, heading or content handling.
C9_ClassificationTotalExclusive ==
    /\ Len(BodyCalls) = li
    /\ \A j \in 1..li :
          LET l == LineOf(j)
          IN  /\ Cardinality(KindsOf(l)) = 1
              /\ kinds[j] \in KindsOf(l)
              /\ HandledAs(kinds[j], l, BodyCalls[j])
              /\ IsDirectiveOp(BodyCalls[j].op)
                    <=> kinds[j] \in {"pagebreak", "toc", "index", "bookmark"}

\* a file of two lines, a directive and then a list item
C9_Witness ==
    /\ li = 2
    /\ kinds = <<"index", "ordered">>
    /\ Len(calls) = 2
    /\ calls[1].op = "add_index_entry"
    /\ calls[2].op = "add_numbered_paragraph"

\* C10: after i lines of the file the builder has received i body-building
\* calls, the j-th of them the call of line j; a blank or whitespace-only
\* line gives add_paragraph with no segments; the loop ends only when every
\* line is consumed, and the finishing calls come after the body calls.
C10_OneCallPerLine ==
    /\ Len(BodyCalls) = li
    /\ li <= Len(doc)
    /\ cpc \in {"footer", "done"} => li = Len(doc)
    /\ \A j \in 1..li :
          /\ calls[j] = BodyCalls[j]
          /\ <<calls[j]>> = ProcessLine(doc[j]).calls
          /\ Strip(LineOf(j)) = <<>> =>
                calls[j] = Call("add_paragraph", <<>>, 0, <<>>, <<>>)

\* a file whose second line is blank, wholly consumed
C10_Witness ==
    /\ cpc = "done"
    /\ Len(doc) = 2
    /\ LineOf(1) # <<>>
    /\ Strip(LineOf(1)) # <<>>
    /\ LineOf(2) # <<>>
    /\ Strip(LineOf(2)) = <<>>
    /\ calls[2] = Call("add_paragraph", <<>>, 0, <<>>, <<>>)
    /\ calls[1] # calls[2]

----------------------------------------------------------------------------
(* The properties of heading lines.                                        *)

\* the number of `#` characters the line begins with
HashCount(l) == Cardinality({k \in 1..Len(l) : \A i \in 1..k : l[i] = "#"})

\* one to six `#`, then a whitespace character, then at least one more
\* character
HeadingSyntax(l) ==
    /\ HashCount(l) \in 1..6
    /\ Len(l) >= HashCount(l) + 2
    /\ IsSpace(l[HashCount(l) + 1])

HeadingRemainder(l) == Slice(l, SpaceEnd(l, HashCount(l)), Len(l))

\* C12: on every heading line parse_line returns exactly one segment, whose
\* text is all of the line after the `#` run and the whitespace following it,
\* whose style is heading<level> and whose link target is empty; spans, links
\* and emphasis markers in that text stay literal.
C12_HeadingTextIsRemainder ==
    (pc = "done" /\ HeadingSyntax(line)) =>
        final = <<Seg(HeadingRemainder(line), HeadingStyle(HashCount(line)), <<>>)>>

----------------------------------------------------------------------------
(* The properties of the bookmark names and of the list items.             *)

\* the names sanitize_bookmark_name has returned so far
BookmarkNames ==
    {calls[i].bookmark[1] : i \in {j \in 1..Len(calls) : calls[j].bookmark # <<>>}}

\* C13: every name sanitize_bookmark_name returns for a heading text is
\* non-empty, at most 40 characters long, starts with a letter (the `h` of
\* `h_` included) and holds only lowercase letters, digits and underscores,
\* also when the text holds tabs, only punctuation or a leading digit.
C13_BookmarkNameWellFormed ==
    \A n \in BookmarkNames :
        /\ Len(n) >= 1
        /\ Len(n) <= 40
        /\ IsLower(n[1])
        /\ \A i \in 1..Len(n) : IsLower(n[i]) \/ n[i] \in Digits \/ n[i] = "_"

\* the leading run of spaces and tabs of a line
LeadingBlanks(l) ==
    Cardinality({k \in 1..Len(l) : \A i \in 1..k : l[i] \in {" ", "\t"}})

\* the width of that run, a tab counted as four spaces
LeadingWidth(l) ==
    LET b == LeadingBlanks(l)
    IN  Cardinality({i \in 1..b : l[i] = " "}) + 4 * Cardinality({i \in 1..b : l[i] = "\t"})

\* after the leading blanks: a marker, a whitespace character, more text
BulletSyntax(l) ==
    LET m == LeadingBlanks(l) + 1
    IN  /\ Len(l) >= m + 2
        /\ l[m] \in {"-", "*", "+"}
        /\ IsSpace(l[m + 1])

\* after the leading blanks: digits, `.` or `)`, a whitespace character,
\* more text
NumberedSyntax(l) ==
    \E d \in (LeadingBlanks(l) + 2)..Len(l) :
        /\ \A i \in (LeadingBlanks(l) + 1)..(d - 1) : l[i] \in Digits
        /\ l[d] \in {".", ")"}
        /\ Len(l) >= d + 2
        /\ IsSpace(l[d + 1])

\* C14: a line with the syntax of an ordered item is dispatched to
\* add_numbered_paragraph and a line with the syntax of an unordered item to
\* add_bullet_paragraph, no other line is, and the level passed is
\* (w div 4) + 1 >= 1 for the width w of the leading whitespace with a tab
\* counted as four spaces; the lines `1. first`, `    2. nested`, `3) third`
\* are ordered items of the levels 1, 2, 1.
C14_ListLevels ==
    /\ \A j \in 1..li :
          LET l == LineOf(j)
              c == BodyCalls[j]
          IN  /\ (c.op = "add_numbered_paragraph") <=> (NumberedSyntax(l) /\ ~HasDirectiveSyntax(l))
              /\ (c.op = "add_bullet_paragraph") <=> (BulletSyntax(l) /\ ~HasDirectiveSyntax(l))
              /\ c.op \in {"add_numbered_paragraph", "add_bullet_paragraph"} =>
                    /\ c.level = (LeadingWidth(l) \div 4) + 1
                    /\ c.level >= 1
    /\ (doc = Terminated(NumberedListsDoc) /\ li = 3) =>
          /\ \A j \in 1..3 : BodyCalls[j].op = "add_numbered_paragraph"
          /\ <<BodyCalls[1].level, BodyCalls[2].level, BodyCalls[3].level>> = <<1, 2, 1>>

C14_Witness ==
    /\ li = 1
    /\ NumberedSyntax(LineOf(1))
    /\ \E i \in 1..LeadingBlanks(LineOf(1)) : LineOf(1)[i] = "\t"
    /\ BodyCalls[1].op = "add_numbered_paragraph"
    /\ BodyCalls[1].level = 2

\* the text of a list item after its marker
ItemText(l) == IF UnorderedMatch(l).ok THEN UnorderedMatch(l).text ELSE OrderedMatch(l).text

EmphasisItemText == <<"A", " ", "*", "b", "*", " ", "a", "n", "d", " ", "*", "*", "c", "*", "*">>

\* C15: the segments of a list item are those of the inline scanner on the
\* text after the marker: they are the segments parse_line gives a content
\* line of that text, and text with heading, list or directive syntax is not
\* detected as such, so that text starting with `# ` and holding no span and
\* no emphasis is one normal segment with the text unchanged, and
\* `A *b* and **c**` gives normal, emphasis, normal, strong.
C15_ListItemInlineOnly ==
    \A j \in 1..li :
        BodyCalls[j].op \in {"add_numbered_paragraph", "add_bullet_paragraph"} =>
            LET t == ItemText(LineOf(j))
                segs == BodyCalls[j].segments
            IN  /\ ~HeadingSyntax(t) => segs = ParseLine(t)
                /\ (NoMarkup(t) /\ (HeadingSyntax(t) \/ HasDirectiveSyntax(t) \/ BulletSyntax(t))) =>
                      segs = <<Seg(t, NORMAL, <<>>)>>
                /\ t = EmphasisItemText =>
                      segs = << Seg(<<"A", " ">>, NORMAL, <<>>),
                                Seg(<<"b">>, EMPHASIS, <<>>),
                                Seg(<<" ", "a", "n", "d", " ">>, NORMAL, <<>>),
                                Seg(<<"c">>, STRONG, <<>>) >>

C15_Witness ==
    /\ li = 1
    /\ BodyCalls[1].op = "add_numbered_paragraph"
    /\ HeadingSyntax(ItemText(LineOf(1)))
    /\ BodyCalls[1].segments = <<Seg(ItemText(LineOf(1)), NORMAL, <<>>)>>

----------------------------------------------------------------------------
(* The properties of the whole conversion: its end, its errors, its        *)
(* configuration and the style set of the builder.                         *)

\* the positions of the calls of an operation
CallsOf(op) == {i \in 1..Len(calls) : calls[i].op = op}

\* C16: apply_header_footer is called at most once and only as the call
\* after the calls of all input lines, save is called at most once and only
\* as the call after apply_header_footer, and a conversion that succeeds has
\* made exactly the calls of its lines, then apply_header_footer, then save.
C16_FinishOrder ==
    /\ Cardinality(CallsOf("apply_header_footer")) <= 1
    /\ Cardinality(CallsOf("save")) <= 1
    /\ \A i \in CallsOf("apply_header_footer") :
          /\ i = Len(doc) + 1
          /\ li = Len(doc)
          /\ \A j \in 1..Len(calls) : (calls[j].op \notin FinishOps) <=> (j < i)
    /\ \A i \in CallsOf("save") :
          /\ i = Len(calls)
          /\ i > 1
          /\ calls[i - 1].op = "apply_header_footer"
    /\ cpc = "done" =>
          /\ Len(calls) = Len(doc) + 2
          /\ calls[Len(doc) + 1].op = "apply_header_footer"
          /\ calls[Len(doc) + 2].op = "save"

C16_Witness ==
    /\ cpc = "done"
    /\ Len(doc) = 2
    /\ calls[3].op = "apply_header_footer"
    /\ calls[4].op = "save"
    /\ calls[1].op = "add_bookmark"
    /\ calls[2] = Call("add_paragraph", <<>>, 0, <<>>, <<>>)

\* C17: in a run in which loading the styles or the layout, opening or
\* reading the input, parsing a color or applying header and footer raises,
\* save is not called, before or after the error; the exception ends the run:
\* no step of the conversion follows it.
C17_NoSaveAfterError ==
    /\ []((cpc = "failed" /\ ioFault # "save") => CallsOf("save") = {})
    /\ [](CallsOf("save") # {} => (err = "" \/ ioFault = "save"))
    /\ [][cpc # "failed"]_vars

\* a color error in the second line, after the first line was rendered
C17_Witness ==
    /\ cpc = "failed"
    /\ err = "ValueError"
    /\ built
    /\ li = 2
    /\ Len(calls) = 2
    /\ CallsOf("save") = {}

\* the unit a layout file gives, and whether it gives a negative length
GivenUnit == Get(layoutYaml, "unit", INCHES)

NegativeLength ==
    \E i \in 1..Len(DimKeys) :
        DimKeys[i] \in DOMAIN layoutYaml /\ layoutYaml[DimKeys[i]] < 0

\* the layout file has been read
LayoutRead == cpc \notin {"start", "styles"} /\ ioFault \notin {"styles", "layout"}

\* the run was ended by load_layout
LayoutRejected ==
    /\ cpc = "failed"
    /\ err = "ValueError"
    /\ ~built
    /\ li = 0
    /\ calls = <<>>

\* C18, as stated: a layout whose unit is not one of inches, mm, cm, or
\* that has a negative length, is rejected with a validation error before the
\* builder is constructed and before a line is read; every other layout, a
\* length of 0 included, is accepted.
C18_BadLayoutRejected ==
    LayoutRead =>
        IF GivenUnit \notin {INCHES, MM, CM} \/ NegativeLength
        THEN LayoutRejected
        ELSE layout # NoLayout

\* C18, amended: a layout whose unit, converted to lower case, is not one of
\* inches, mm, cm, or that has a negative length, is rejected with a
\* validation error before the builder is constructed and before a line is
\* read; every other layout, a length of 0 included, is accepted.
C18_BadLayoutRejectedLowerCase ==
    LayoutRead =>
        IF LowerStr(GivenUnit) \notin {INCHES, MM, CM} \/ NegativeLength
        THEN LayoutRejected
        ELSE /\ layout # NoLayout
             /\ ~(cpc = "failed" /\ ~built)

\* a negative margin under mm, rejected
C18_Witness ==
    /\ LayoutRejected
    /\ LayoutRead
    /\ GivenUnit = MM
    /\ NegativeLength

\* exactly six hex digits after an optional leading `#`
WellFormedColor(c) ==
    LET d == IF c # <<>> /\ c[1] = "#" THEN Tail(c) ELSE c
    IN  Len(d) = 6 /\ \A i \in 1..6 : d[i] \in HexDigits

MalformedColorInFile ==
    \E n \in DOMAIN stylesYaml : stylesYaml[n] # <<>> /\ ~WellFormedColor(stylesYaml[n])

\* C19: when some style of the styles file has a malformed color, the
\* conversion fails before a line is dispatched to the builder: no call is
\* made on the builder and the conversion does not complete.
C19_MalformedColorFailsAtLoad ==
    MalformedColorInFile => (calls = <<>> /\ cpc # "done")

\* C20: once the builder is constructed its style set has an entry "normal",
\* the default one when the styles file has none, and every style lookup
\* succeeds: a name the style set lacks resolves to the entry "normal".
C20_NormalAlwaysPresent ==
    /\ built =>
          /\ NORMAL \in DOMAIN styles
          /\ NORMAL \notin DOMAIN stylesYaml => styles[NORMAL] = <<>>
          /\ \A n \in DOMAIN stylesYaml : n \in DOMAIN styles /\ styles[n] = stylesYaml[n]
    /\ err # "KeyError"
    /\ \A i \in 1..Len(resolved) :
          /\ resolved[i].ok
          /\ resolved[i].found <=> resolved[i].name \in DOMAIN styles
          /\ resolved[i].color =
                 IF resolved[i].name \in DOMAIN styles
                 THEN styles[resolved[i].name]
                 ELSE styles[NORMAL]

\* a span with a style the file lacks, rendered with the synthesized "normal"
C20_Witness ==
    /\ built
    /\ NORMAL \notin DOMAIN stylesYaml
    /\ \E i \in 1..Len(resolved) :
          /\ ~resolved[i].found
          /\ resolved[i].name # NORMAL
          /\ resolved[i].color = <<>>
    /\ \E i \in 1..Len(resolved) : resolved[i].found /\ resolved[i].name = NORMAL

\* the term of a line that is OPEN, a non-empty term and `>>>`, the marker
\* in any letter case: <<term>>, or <<>> when the line is not of that form
TermOf(open, t) ==
    IF /\ Len(t) > Len(open) + 3
       /\ LowerStr(SubSeq(t, 1, Len(open))) = open
       /\ SubSeq(t, Len(t) - 2, Len(t)) = <<">", ">", ">">>
    THEN <<SubSeq(t, Len(open) + 1, Len(t) - 3)>>
    ELSE <<>>

\* the directive a line is by its syntax: the builder operation and the term
DirectiveBySyntax(l) ==
    LET t == Strip(l)
    IN  IF LowerStr(t) = <<"<", "<", "<", "p", "a", "g", "e", "b", "r", "e", "a", "k", ">", ">", ">">>
        THEN <<"add_page_break", <<>>>>
        ELSE IF LowerStr(t) = <<"<", "<", "<", "t", "o", "c", ">", ">", ">">>
        THEN <<"add_toc", <<>>>>
        ELSE IF TermOf(<<"<", "<", "<", "i", "n", "d", "e", "x", ":">>, t) # <<>>
        THEN <<"add_index_entry", TermOf(<<"<", "<", "<", "i", "n", "d", "e", "x", ":">>, t)[1]>>
        ELSE IF TermOf(<<"<", "<", "<", "b", "o", "o", "k", "m", "a", "r", "k", ":">>, t) # <<>>
        THEN <<"add_bookmark", TermOf(<<"<", "<", "<", "b", "o", "o", "k", "m", "a", "r", "k", ":">>, t)[1]>>
        ELSE <<"none", <<>>>>

\* C23: a line is handled as a directive exactly when, trimmed and with the
\* letter case of the marker ignored, it is `<<<pagebreak>>>`, `<<<toc>>>`,
\* `<<<index:TERM>>>` or `<<<bookmark:NAME>>>` with a non-empty term, and the
\* term reaches the builder verbatim; every other line, a malformed
\* directive included, raises nothing in the loop body and is handled as a
\* blank, list, heading or content line.
C23_DirectiveSyntax ==
    /\ Len(BodyCalls) = li
    /\ \A j \in 1..li :
          LET d == DirectiveBySyntax(LineOf(j))
          IN  IF d[1] # "none"
              THEN /\ calls[j].op = d[1]
                   /\ calls[j].arg = d[2]
                   /\ calls[j].segments = <<>>
                   /\ kinds[j] \in {"pagebreak", "toc", "index", "bookmark"}
              ELSE /\ calls[j].op \in {"add_paragraph", "add_bullet_paragraph",
                                       "add_numbered_paragraph"}
                   /\ kinds[j] \in {"blank", "bullet", "ordered", "heading", "content"}
                   /\ Strip(LineOf(j)) # <<>> => calls[j].segments # <<>>

\* an index directive after a blank, its term kept verbatim, followed by an
\* index directive without its closing delimiter, handled as content
C23_Witness ==
    /\ li = 2
    /\ Len(calls) = 2
    /\ LineOf(1) = <<" ", "<", "<", "<", "i", "n", "d", "e", "x", ":", "*", "a", "*", ">", ">", ">">>
    /\ calls[1].op = "add_index_entry"
    /\ calls[1].arg = <<"*", "a", "*">>
    /\ LineOf(2) = <<"<", "<", "<", "i", "n", "d", "e", "x", ":", "a">>
    /\ calls[2].op = "add_paragraph"
    /\ calls[2].segments # <<>>

\* the bookmark starts and ends in the document, by position
StartElems == {i \in 1..Len(bookmarkElems) : bookmarkElems[i].tag = "w:bookmarkStart"}
EndElems == {i \in 1..Len(bookmarkElems) : bookmarkElems[i].tag = "w:bookmarkEnd"}

\* C25: every heading line the loop has consumed has put exactly one bookmark
\* start into the document, under the sanitized text of the heading, whether
\* or not the document already holds a bookmark of that name: two headings
\* of the same sanitized name both carry it, under different ids.
C25_NoDeduplication ==
    /\ \A j \in 1..li :
          IsHeadingLine(LineOf(j)) =>
              /\ Len(calls) >= j
              /\ calls[j].segments # <<>>
              /\ Cardinality({i \in StartElems : bookmarkElems[i].call = j}) = 1
              /\ \A i \in StartElems :
                    bookmarkElems[i].call = j =>
                        bookmarkElems[i].name = SanitizeBookmarkName(calls[j].segments[1].text)
    /\ \A i, k \in StartElems : i # k => bookmarkElems[i].id # bookmarkElems[k].id

\* two headings of different text and the same sanitized name, a bookmark
\* directive of that name between them
C25_Witness ==
    /\ cpc = "done"
    /\ li = 4
    /\ IsHeadingLine(LineOf(1))
    /\ IsHeadingLine(LineOf(4))
    /\ LineOf(1) # LineOf(4)
    /\ Cardinality(StartElems) = 3
    /\ \A i \in StartElems : bookmarkElems[i].name = <<"a", "_", "b">>
    /\ \E i, k \in StartElems : bookmarkElems[i].call = 1 /\ bookmarkElems[k].call = 4

\* the calls made so far that ask for a bookmark
BookmarkingCalls ==
    {j \in 1..Len(calls) :
        \/ calls[j].op = "add_bookmark"
        \/ calls[j].op = "add_paragraph" /\ calls[j].bookmark # <<>>}

\* the k-th bookmark start in the document
NthStart(k) == CHOOSE i \in StartElems : Cardinality({m \in StartElems : m <= i}) = k

\* the ids are 1, 2, 3, ... in call order, one per call that asks for a
\* bookmark, and the counter is their number
IdsInCallOrder ==
    /\ bookmarkIdCounter = Cardinality(BookmarkingCalls)
    /\ Cardinality(StartElems) = bookmarkIdCounter
    /\ \A k \in 1..Cardinality(StartElems) :
          /\ bookmarkElems[NthStart(k)].id = DecStr(k)
          /\ bookmarkElems[NthStart(k)].call \in BookmarkingCalls
          /\ Cardinality({j \in BookmarkingCalls : j <= bookmarkElems[NthStart(k)].call}) = k
    /\ \A i \in EndElems : \E k \in StartElems :
          k < i /\ bookmarkElems[k].id = bookmarkElems[i].id

\* the ends that carry the id of a start
EndsOf(i) == {k \in EndElems : bookmarkElems[k].id = bookmarkElems[i].id}

\* the call that put start i into the document raised while rendering
RaisedAfterStart(i) ==
    /\ cpc = "failed"
    /\ err = "ValueError"
    /\ bookmarkElems[i].call = Len(calls)
    /\ calls[Len(calls)].op = "add_paragraph"

ContentSyntax(l) ==
    /\ Strip(l) # <<>>
    /\ DirectiveBySyntax(l)[1] = "none"
    /\ ~BulletSyntax(l)
    /\ ~NumberedSyntax(l)

\* the heading naming convention: the name begins with `heading`
HeadingNamed(style) ==
    /\ Len(style) >= 7
    /\ SubSeq(style, 1, 7) = <<"h", "e", "a", "d", "i", "n", "g">>

\* C24: for every non-blank line that is no directive and no list item the
\* call made is add_paragraph with the segments of parse_line, and its
\* auto-bookmark is sanitize_bookmark_name of the text of the first segment
\* when the style name of the first segment begins with `heading`, and is
\* absent otherwise; the builder puts a bookmark start of that name into the
\* paragraph exactly when the auto-bookmark is given.
C24_AutoBookmarkThreaded ==
    \A j \in 1..li :
        ContentSyntax(LineOf(j)) =>
            /\ Len(calls) >= j
            /\ calls[j].op = "add_paragraph"
            /\ calls[j].segments = ParseLine(LineOf(j))
            /\ calls[j].segments # <<>>
            /\ calls[j].bookmark =
                   IF HeadingNamed(calls[j].segments[1].style)
                   THEN <<SanitizeBookmarkName(calls[j].segments[1].text)>>
                   ELSE <<>>
            /\ {bookmarkElems[i].name : i \in {k \in StartElems : bookmarkElems[k].call = j}}
                   = {calls[j].bookmark[k] : k \in 1..Len(calls[j].bookmark)}

\* a heading line with its bookmark, then a content line without
C24_Witness ==
    /\ li = 2
    /\ Len(calls) = 2
    /\ LineOf(1) = <<"#", "#", " ", "A", " ", "b">>
    /\ calls[1].bookmark = << <<"a", "_", "b">> >>
    /\ ContentSyntax(LineOf(2))
    /\ calls[2].op = "add_paragraph"
    /\ Len(calls[2].segments) = 2
    /\ calls[2].bookmark = <<>>

\* C27: add_paragraph is called with an auto-bookmark only for a line with
\* the syntax of a heading: for a line without it, a line whose first
\* segment is a custom span of a style named `heading...` included, the call
\* carries no auto-bookmark.
C27_BookmarkOnlyOnHeadingLines ==
    \A j \in 1..li :
        (Len(calls) >= j /\ calls[j].op = "add_paragraph" /\ ~HeadingSyntax(LineOf(j)))
            => calls[j].bookmark = <<>>

\* the returned segments with a link target, and the link spans of the line
LinkSegments == {k \in 1..Len(final) : final[k].link # <<>>}
LinkMatches == {i \in 1..Len(matches) : matches[i].type = "link"}

\* C26: every segment parse_line returns has a non-empty text; a segment
\* with a non-empty link target is the segment of a link span
\* [label](#anchor) of the line, with the label as text, the anchor as target
\* and the style normal; every link span gives one such segment, and all
\* other segments (plain text, emphasis, custom spans, heading) have an
\* empty link target.
C26_SegmentShape ==
    pc = "done" =>
        /\ \A k \in 1..Len(final) : final[k].text # <<>>
        /\ \A k \in LinkSegments :
              /\ final[k].style = NORMAL
              /\ \E i \in LinkMatches :
                    /\ Slice(line, matches[i].start, matches[i].end)
                          = <<"[">> \o final[k].text \o <<"]", "(", "#">>
                               \o final[k].link \o <<")">>
        /\ Cardinality(LinkSegments) = Cardinality(LinkMatches)
        /\ IsHeadingLine(line) => LinkSegments = {}

\* a link, a custom span and the blanks around them
C26_Witness ==
    /\ pc = "done"
    /\ Len(final) = 4
    /\ LinkSegments = {1}
    /\ final[3].style = <<"s">>
    /\ final[3].link = <<>>
    /\ final[2].text = <<" ">>

\* the iterations of the scan loop made so far that did not break: each of
\* them appended one emphasis or strong segment
FoldIterations == Cardinality({k \in 1..Len(fsegs) : fsegs[k].style # NORMAL})

\* C29: the emphasis fold terminates on every text: an iteration of its scan
\* loop either ends the loop or moves the cursor to a strictly greater
\* offset within the text, because the chosen match is non-empty, starts at
\* or after the cursor and ends after it; the number of iterations is at
\* most the length of the text, and every call reaches its return.
C29_FoldTerminates ==
    /\ [][(fpc = "loop" /\ fpos < Len(ftext)) =>
             \/ fpc' = "filter" /\ fbest' = NoBest /\ fpos' = fpos
             \/ /\ fpc' = "loop"
                /\ fbest' # NoBest
                /\ fbest'.match.start >= fpos
                /\ fbest'.match.end > fbest'.match.start
                /\ fpos' = fbest'.match.end
                /\ fpos' > fpos
                /\ fpos' <= Len(ftext)]_vars
    /\ [](FoldIterations <= fpos /\ fpos <= Len(ftext))
    /\ <>(fpc = "done")

\* a text of three matches, folded in three iterations up to its end
C29_Witness ==
    /\ fpc = "done"
    /\ FoldIterations = 3
    /\ fpos = Len(ftext)
    /\ Len(fsegs) = 3
    /\ fsegs[2].style = STRONG

\* some input path does not exist
MissingInput == \E i \in 1..Len(InputFiles) : ~present[InputFiles[i][1]]

\* the conversion function has not been entered
NotConverted ==
    /\ converter = "none"
    /\ cpc = "start"
    /\ calls = <<>>

\* C21: main selects the conversion by the extension of the output path,
\* compared in lower case: .docx gives the DOCX conversion and .pdf the PDF
\* conversion; with any other extension no conversion function is entered
\* and main does not exit with status 0.
C21_OutputKindByExtension ==
    /\ converter = "convert_markdown_to_docx" => LowerStr(suffix) = <<".", "d", "o", "c", "x">>
    /\ converter = "convert_markdown_to_pdf" => LowerStr(suffix) = <<".", "p", "d", "f">>
    /\ LowerStr(suffix) \notin {<<".", "d", "o", "c", "x">>, <<".", "p", "d", "f">>} =>
          /\ NotConverted
          /\ exitStatus # 0
          /\ clipc = "exited" => exitStatus = 1

\* C22: when an input path does not exist, the conversion function is not
\* entered and main exits with status 1 and a line on stderr that names the
\* first missing file; main exits with status 0 only when the conversion
\* has returned, and with status 1 and a line on stderr when it has raised.
C22_ExitStatus ==
    /\ MissingInput =>
          /\ NotConverted
          /\ exitStatus # 0
          /\ clipc = "exited" =>
                /\ exitStatus = 1
                /\ stderr = << <<"file not found", InputFiles[checked + 1][2]>> >>
                /\ ~present[InputFiles[checked + 1][1]]
                /\ \A i \in 1..checked : present[InputFiles[i][1]]
    /\ exitStatus = 0 =>
          /\ clipc = "exited"
          /\ cpc = "done"
          /\ err = ""
          /\ stderr = <<>>
          /\ ~MissingInput
    /\ (clipc = "exited" /\ cpc = "failed") =>
          /\ exitStatus = 1
          /\ stderr = << <<"Error", err>> >>
    /\ (clipc = "exited" /\ cpc = "done") => exitStatus = 0
    /\ exitStatus \in {-1, 0, 1}
    /\ exitStatus = -1 <=> clipc # "exited"

\* the layout file is missing: the first two checks passed, then exit 1
C22_Witness ==
    /\ clipc = "exited"
    /\ exitStatus = 1
    /\ entry = "kdpbuilder.cli"
    /\ present["markdown"]
    /\ present["styles"]
    /\ ~present["layout"]
    /\ checked = 2
    /\ stderr = << <<"file not found", "Layout">> >>
    /\ NotConverted

====
